---- MODULE Spec2Model ----
(***************************************************************************)
(* A model of the powlib simulation library: the register / handshake      *)
(* protocol stack (RegisterAgent.py, HandshakeAgent.py), the Driver queue  *)
(* (component.py, driver.py) and the bus transaction layer (BusAgent.py,   *)
(* blocks/__init__.py).                                                    *)
(*                                                                         *)
(* Time is the simulator's: a clock rising edge (a Tick action) resumes    *)
(* every activity suspended in ReadOnly/RisingEdge(clk); a change of an    *)
(* interface signal resumes the activity suspended on that signal's edge.  *)
(* An activity runs from one suspension point to the next as one step; a   *)
(* yield of NullTrigger resumes at once and is no suspension point.        *)
(***************************************************************************)
EXTENDS Integers, Sequences, FiniteSets, TLC

\* ------------------------------------------------------------------ bounds
MaxData == 2        \* data words are 0..MaxData (0 is the default word)
MaxWrites == 3      \* calls of Driver.write in one run
MaxCycles == 4      \* clock edges the monitor is observed for
MaxAddr == 1        \* bus addresses are 0..MaxAddr
MaxBurst == 2       \* addresses in one BusAgent.read
MaxRamBurst == 3    \* addresses in one BusAgent.read from the RAM responder
MaxReads == 2       \* calls of BusAgent.read in one run
MaxPublish == 3     \* Transactions the read monitor publishes in one run
MaxBusWrites == 2   \* calls of BusAgent.write by the test in one run
MaxBlocks == 3      \* blocks of a port graph
MaxConn == 3        \* entries of an out-port's list of in-ports
MaxOutWrites == 2   \* calls of OutPort.write by the test in one run
MaxOp == 3          \* the largest op a bus Transaction carries

DataVals == 1..MaxData
RstVals == {"0", "1", "x", "z"}
Kinds == {"register", "handshake"}
AllowGens == {"always", "never", "coin"}

VARIABLES
    kind,       \* which interface class the component was cast to
    rstMode,    \* reset_active_mode of the component ("0" or "1")
    rst,        \* str() of the reset signal's value
    vld, rdy,   \* the handshake signals
    data,       \* the data signal
    mon,        \* the monitor activity: [pc, sync]
    published,  \* [n, last]: how many Transactions the monitor wrote to its
                \* out-port, and the last of them
    hsLog,      \* [n, last]: how many clock edges met the monitor's condition
                \* since its reset wait ended, and the interface at the last
    lastSync,   \* <<>>, or <<[atClk, vld, rdy]>>: the instant at which the
                \* monitor's Interface._synchronize last returned
    cycle,      \* clock edges so far (monitor runs)
    drv,        \* the driver: [pc, sync, queue, event, flushevt]
    allowGen,   \* the congestion generator given to the write driver
    wrlog,      \* data given to Driver.write, in call order
    taken,      \* data popped by Driver._read, in order
    ifWrites,   \* queued data written to the interface by _write, in order
    xfers,      \* the data signal at each clock edge with vld and rdy asserted
    drvRelease, \* the reset value seen when the driver's reset wait finished
    cq,         \* a component.Driver called directly: [queue, event, flushevt]
    cres,       \* the outcome of its last _read
    lq,         \* a driver.Driver called directly: [queue, event]
    lres,       \* the outcome of its last _read
    inports,    \* the read monitor's out-port: the ids of the connected in-ports
    ports,      \* the queue of every in-port a BusAgent.read made, by port id
    rdEvent,    \* BusAgent.__rdEvent: TRUE when set
    busWr,      \* the bus agent's write driver: [queue, event, flushevt]
    rd,         \* the activities that call BusAgent.read, by name
    npub,       \* Transactions the read monitor has published
    wrBefore,   \* for each activity: the BusAgent.write calls of the test
                \* that came before its last call of BusAgent.read
    ram,        \* RamBlock.__ram: byte address -> byte
    replyQ,     \* the responder's replies on their way to the read monitor
    busWrites,  \* the BusAgent.write calls of the test, in call order
    aport,      \* an InPort of block.py: [setup, q]
    awriter,    \* the activity that writes to it: [pc, val]
    ares,       \* the outcome of the last call on it
    alog,       \* [written, reads]: the values its writes put and its reads got
    lport,      \* an InPort of verify/__init__.py: [data, runs]
    lpres,      \* the outcome of the last call on it
    llog,       \* [written, reads]: the values written to it and read from it
    gconn,      \* the port graph: for each block the consumers of its out-port
    gin,        \* the number of items in each block's in-port queue
    gput,       \* for each in-port queue the tasks suspended in a put to it
    gtask,      \* the tasks of the current gather, by block: [pc, idx, ret]
    grdy,       \* the event loop's queue of tasks ready to run
    gpc,        \* main: "idle" before it runs, "pass" in a gather, "ended"
    sched,      \* the blocks in the order their in-ports were given data
    ran,        \* the blocks in the order their behaviours ran
    oin,        \* the in-ports connected to the OutPort of block.py, in list order
    oq,         \* the queue of each of its in-ports
    owr,        \* the OutPort.write of block.py in progress or last called
    olast,      \* the outcome of the last call on the OutPort of block.py
    lin,        \* the in-ports connected to the OutPort of verify/__init__.py
    ldq,        \* the state of each of its in-ports: [data, runs]
    llast,      \* the outcome of the last call on the OutPort of verify/__init__.py
    ocnt,       \* for each in-port its connects less its disconnects that found it
    onwr,       \* the number of OutPort.write calls so far
    convIn,     \* the busInport of a BusRamConvertBlock
    conv,       \* the outcome of the last run of its behaviour
    ocls,       \* the OutPort class the test uses
    fl,         \* the activities that call Driver.flush, by name: [pc, pops]
    icls,       \* the Interface class a test constructs
    ikw,        \* the keyword arguments it gives: per name, absent, a Signal handle or something else
    iface,      \* the construction: [made, raised, members]
    isig,       \* the values of the signals of the design
    ilast,      \* the last call on the interface: [op, asked, val, ret, before]
    nsA,        \* a Namespace: a function from its attribute names to their values
    nsB,        \* another Namespace
    nsRes,      \* what the calls returned: [ab, ba, eq], <<>> for not called
    rcall,      \* the last call a test made on the read driver: [op, raised]
    clast,      \* the last request the responder served or call made on the RAM: [req, raised, reply, ramReq, word]
    dclk        \* whether the discrete interface was given a signal named clk

sigVars == <<rst, vld, rdy, data>>
cfgVars == <<kind, rstMode>>
monVars == <<mon, published, hsLog, lastSync, cycle>>
drvVars == <<drv, allowGen, wrlog, taken, ifWrites, xfers, drvRelease>>
queueVars == <<cq, cres, lq, lres>>
busVars == <<inports, ports, rdEvent, busWr, rd, npub, wrBefore>>
ramVars == <<ram, replyQ, busWrites>>
portVars == <<aport, awriter, ares, alog, lport, lpres, llog>>
graphVars == <<gconn, gin, gput, gtask, grdy, gpc, sched, ran>>
outVars ==
    <<oin, oq, owr, olast, lin, ldq, llast, ocnt, onwr, convIn, conv, ocls>>
flushVars == <<fl>>
ifVars == <<icls, ikw, iface, isig, ilast>>
nsVars == <<nsA, nsB, nsRes>>
rdVars == <<rcall>>
respVars == <<clast>>
discVars == <<dclk>>
vars ==
    <<cfgVars, sigVars, monVars, drvVars, queueVars, busVars, ramVars,
      portVars, graphVars, outVars, flushVars, ifVars, nsVars, rdVars,
      respVars, discVars>>

\* What the actions of one part of the model leave alone.
restOfMon ==
    <<drvVars, queueVars, busVars, ramVars, portVars, graphVars, outVars,
      flushVars, ifVars, nsVars, rdVars, respVars, discVars>>
restOfDrv ==
    <<monVars, queueVars, busVars, ramVars, portVars, graphVars, outVars,
      flushVars, ifVars, nsVars, rdVars, respVars, discVars>>
restOfQueue ==
    <<cfgVars, sigVars, monVars, drvVars, busVars, ramVars, portVars,
      graphVars, outVars, flushVars, ifVars, nsVars, rdVars, respVars,
      discVars>>
restOfBus ==
    <<cfgVars, sigVars, monVars, drvVars, queueVars, portVars, graphVars,
      outVars, flushVars, ifVars, nsVars, rdVars, respVars, discVars>>
restOfPort ==
    <<cfgVars, sigVars, monVars, drvVars, queueVars, busVars, ramVars,
      graphVars, outVars, flushVars, ifVars, nsVars, rdVars, respVars,
      discVars>>
restOfGraph ==
    <<cfgVars, sigVars, monVars, drvVars, queueVars, busVars, ramVars,
      portVars, outVars, flushVars, ifVars, nsVars, rdVars, respVars,
      discVars>>
restOfOut ==
    <<cfgVars, sigVars, monVars, drvVars, queueVars, busVars, ramVars,
      portVars, graphVars, flushVars, ifVars, nsVars, rdVars, respVars,
      discVars>>
restOfFlush ==
    <<cfgVars, sigVars, monVars, drvVars, busVars, ramVars, portVars,
      graphVars, outVars, ifVars, nsVars, rdVars, respVars, discVars>>
restOfIf ==
    <<cfgVars, sigVars, monVars, drvVars, queueVars, busVars, ramVars,
      portVars, graphVars, outVars, flushVars, nsVars, rdVars, respVars,
      discVars>>
restOfNs ==
    <<cfgVars, sigVars, monVars, drvVars, queueVars, busVars, ramVars,
      portVars, graphVars, outVars, flushVars, ifVars, rdVars, respVars,
      discVars>>
restOfRd ==
    <<monVars, queueVars, busVars, ramVars, portVars, graphVars, outVars,
      flushVars, ifVars, nsVars, respVars, discVars>>
restOfResp ==
    <<cfgVars, sigVars, monVars, drvVars, queueVars, busVars, portVars,
      graphVars, outVars, flushVars, ifVars, nsVars, rdVars, discVars>>
restOfDisc ==
    <<queueVars, busVars, ramVars, portVars, graphVars, outVars,
      flushVars, ifVars, nsVars, rdVars, respVars>>

\* ------------------------------------------------- interface synchronization
\* A _synchronize whose loop tests "and" where the code tests "or".
WhileCondBothLow(v, r) ==
    IF v = 0 /\ r = 0 THEN "vld_edge" ELSE "done"

\* The test of the loop and of the two ifs of HandshakeInterface._synchronize,
\* taken at one instant: where the activity goes next.
WhileCond(v, r) ==
    IF v = 0 \/ r = 0
    THEN (IF v = 0 THEN "vld_edge" ELSE "rdy_edge")
    ELSE "done"

\* HandshakeInterface._synchronize resumed by a rising clock edge.
\*   "clk"     : in the RegisterInterface._synchronize of line 50 or line 57
\*   "vld_clk" : in the RegisterInterface._synchronize of line 54
HsSyncOnClk(st, v, r) ==
    CASE st = "clk" -> WhileCond(v, r)
      [] st = "vld_clk" -> IF r = 0 THEN "rdy_edge" ELSE WhileCond(v, r)
      [] OTHER -> st

\* A _synchronize that does not align to the clock again after RisingEdge(rdy).
HsSyncOnRiseNoAlign(st, sig) ==
    CASE st = "vld_edge" /\ sig = "vld" -> "vld_clk"
      [] st = "rdy_edge" /\ sig = "rdy" -> "done"
      [] OTHER -> st

\* HandshakeInterface._synchronize resumed by RisingEdge(vld) / RisingEdge(rdy).
HsSyncOnRise(st, sig) ==
    CASE st = "vld_edge" /\ sig = "vld" -> "vld_clk"
      [] st = "rdy_edge" /\ sig = "rdy" -> "clk"
      [] OTHER -> st

\* RegisterInterface._synchronize: ReadOnly, then the next rising clock edge.
RegSyncOnClk(st) == IF st = "clk" THEN "done" ELSE st

\* A synchronization that waits for the clock only, whatever the interface.
SyncOnClkOnly(k, st, v, r) == RegSyncOnClk(st)

SyncOnClk(k, st, v, r) ==
    IF k = "handshake" THEN HsSyncOnClk(st, v, r) ELSE RegSyncOnClk(st)

\* RegisterInterface._wait_reset after the first alignment: TRUE when it
\* suspends on Edge(rst).
ResetBlocks(r, mode) == r = "z" \/ r = "x" \/ r = mode

\* Interface.read: every signal of the interface is sampled ("name is not
\* self._cntrl" holds of every name).
InterfaceRead == [clk |-> 1, rst |-> rst, vld |-> vld, rdy |-> rdy, data |-> data]

\* ------------------------------------------------------------------ monitor
\* RegisterMonitor._read: outport.write(self._interface.read(), ...).
MonitorRead(p) == [n |-> p.n + 1, last |-> <<InterfaceRead>>]

\* The monitor's loop after a resumption of its _synchronize that left the
\* interface's state machine in s (RegisterMonitor._monitor, lines 188-190).
MonitorLoop(m, s) ==
    IF s = "done" THEN [m EXCEPT !.sync = "clk"] ELSE [m EXCEPT !.sync = s]

\* RegisterMonitor._wait_reset resumed by the clock edge of its first alignment.
MonitorWaitReset(m) ==
    IF ResetBlocks(rst, rstMode)
    THEN [m EXCEPT !.pc = "rst_edge"]
    ELSE [pc |-> "run", sync |-> "clk"]

\* The clock edges whose handshake a monitor in its loop has to report.
Completes == kind = "register" \/ (vld = 1 /\ rdy = 1)

MonInit ==
    /\ mon = [pc |-> "rst_sync", sync |-> "none"]
    /\ published = [n |-> 0, last |-> <<>>]
    /\ hsLog = [n |-> 0, last |-> <<>>]
    /\ lastSync = <<>>
    /\ cycle = 0

\* A rising clock edge.
MonTick ==
    /\ cycle < MaxCycles
    /\ cycle' = cycle + 1
    /\ hsLog' = IF mon.pc = "run" /\ Completes
                THEN [n |-> hsLog.n + 1, last |-> <<InterfaceRead>>]
                ELSE hsLog
    /\ IF mon.pc = "rst_sync"
       THEN /\ mon' = MonitorWaitReset(mon)
            /\ UNCHANGED <<published, lastSync>>
       ELSE IF mon.pc = "run" /\ mon.sync \in {"clk", "vld_clk"}
       THEN LET s == SyncOnClk(kind, mon.sync, vld, rdy) IN
            /\ mon' = MonitorLoop(mon, s)
            /\ published' = IF s = "done" THEN MonitorRead(published) ELSE published
            /\ lastSync' = IF s = "done"
                           THEN <<[atClk |-> TRUE, vld |-> vld, rdy |-> rdy]>>
                           ELSE lastSync
       ELSE UNCHANGED <<mon, published, lastSync>>
    /\ UNCHANGED <<cfgVars, sigVars, restOfMon>>

\* The monitor resumed by a rising edge of sig, the signals being v and r then.
MonRise(sig, v, r) ==
    IF mon.pc = "run" /\ kind = "handshake"
    THEN LET s == HsSyncOnRise(mon.sync, sig) IN
         /\ mon' = MonitorLoop(mon, s)
         /\ published' = IF s = "done" THEN MonitorRead(published) ELSE published
         /\ lastSync' = IF s = "done"
                        THEN <<[atClk |-> FALSE, vld |-> v, rdy |-> r]>>
                        ELSE lastSync
    ELSE UNCHANGED <<mon, published, lastSync>>

\* The design under test (or another driver) changes vld.
MonEnvVld ==
    /\ vld' = 1 - vld
    /\ IF vld' = 1 THEN MonRise("vld", 1, rdy)
       ELSE UNCHANGED <<mon, published, lastSync>>
    /\ UNCHANGED <<cfgVars, rst, rdy, data, hsLog, cycle, restOfMon>>

\* The design under test (or a read driver) changes rdy.
MonEnvRdy ==
    /\ rdy' = 1 - rdy
    /\ IF rdy' = 1 THEN MonRise("rdy", vld, 1)
       ELSE UNCHANGED <<mon, published, lastSync>>
    /\ UNCHANGED <<cfgVars, rst, vld, data, hsLog, cycle, restOfMon>>

\* The data signal changes.
MonEnvData ==
    /\ \E d \in (0..MaxData) \ {data} : data' = d
    /\ UNCHANGED <<cfgVars, rst, vld, rdy, monVars, restOfMon>>

\* The reset signal changes: Edge(rst) resumes a monitor suspended in
\* RegisterInterface._wait_reset, which then returns.
MonEnvRst ==
    /\ \E r \in RstVals \ {rst} : rst' = r
    /\ mon' = IF mon.pc = "rst_edge" THEN [pc |-> "run", sync |-> "clk"] ELSE mon
    /\ UNCHANGED <<cfgVars, vld, rdy, data, published, hsLog, lastSync, cycle, restOfMon>>

\* ------------------------------------------------------------- driver queue
\* A write that forgets to set the event.
DriverWriteNoSet(d, item) ==
    [d EXCEPT !.queue = Append(@, item)]

\* Driver.write (component.py): append to the queue and set the event.
DriverWrite(d, item) ==
    [d EXCEPT !.queue = Append(@, item), !.event = TRUE]

\* Driver._ready (component.py).
DriverReady(d) == Len(d.queue) # 0

\* A read that sets the flush event at every pop.
DriverReadSetAlways(d) ==
    [d EXCEPT !.queue = Tail(@), !.flushevt = TRUE]

\* Driver._read (component.py) on a queue that holds data: pop the oldest
\* entry and set the flush event when that empties the queue.
DriverRead(d) ==
    [d EXCEPT !.queue = Tail(@),
              !.flushevt = IF Len(d.queue) = 1 THEN TRUE ELSE @]

\* ------------------------------------------------------------------- driver
\* The state a step of the drive activity works on.
DrvState ==
    [d |-> drv, vld |-> vld, data |-> data, taken |-> taken,
     ifw |-> ifWrites, rel |-> drvRelease]

\* A generator that may yield either value, whatever was given.
AllowNextAny(g) == BOOLEAN

\* next(self.allow) for the three generators of HandshakeAgent.py.
AllowNext(g) ==
    CASE g = "always" -> {TRUE}
      [] g = "never" -> {FALSE}
      [] OTHER -> BOOLEAN

\* An allow loop that raises vld whatever the generator yields.
AllowLoopRaise(b, a) ==
    [b EXCEPT !.vld = 1, !.d.pc = "sync", !.d.sync = "clk"]

\* HandshakeWriteDriver._write from its allow loop on, a being the value of
\* next(self.allow): stall one clock with vld low, or raise vld and enter
\* _synchronize.
AllowLoop(b, a) ==
    IF a
    THEN [b EXCEPT !.vld = 1, !.d.pc = "sync", !.d.sync = "clk"]
    ELSE [b EXCEPT !.vld = 0, !.d.pc = "allow_sync"]

\* self._write(item): Interface.write puts the item on the data signal; the
\* write driver then runs its allow loop, the register driver enters
\* _synchronize.
DrvWrite(b, item, a) ==
    LET w == [b EXCEPT !.data = item, !.ifw = Append(@, item)] IN
    IF kind = "handshake"
    THEN AllowLoop(w, a)
    ELSE [w EXCEPT !.d.pc = "sync", !.d.sync = "clk"]

\* yield self._event.wait(); self._event.clear(); then the alignment of
\* line 131.  A set event makes wait() return at once.
EventWait(b) ==
    IF b.d.event
    THEN [b EXCEPT !.d.event = FALSE, !.d.pc = "idle_sync"]
    ELSE [b EXCEPT !.d.pc = "evt_wait"]

\* RegisterDriver._drive from the test of its inner while loop (line 126).
DriveLoop(b, a) ==
    IF DriverReady(b.d)
    THEN DrvWrite([b EXCEPT !.d = DriverRead(@),
                            !.taken = Append(@, Head(b.d.queue))],
                  Head(b.d.queue), a)
    ELSE EventWait(b)

\* A _synchronize that leaves vld asserted when the queue is empty.
AfterSyncKeepVld(b, a) == DriveLoop(b, a)

\* The rest of the driver's _synchronize once the interface's has returned:
\* the write driver lowers vld when nothing is queued; then the loop goes on.
AfterSync(b, a) ==
    IF kind = "handshake" /\ ~DriverReady(b.d)
    THEN DriveLoop([b EXCEPT !.vld = 0], a)
    ELSE DriveLoop(b, a)

\* RegisterDriver._wait_reset has returned, the reset signal being r.
ResetDone(b, r, a) == DriveLoop([b EXCEPT !.rel = <<r>>], a)

\* The drive activity resumed by a rising clock edge.
DriveOnClk(b, a) ==
    CASE b.d.pc = "rst_sync" ->
            IF ResetBlocks(rst, rstMode)
            THEN [b EXCEPT !.d.pc = "rst_edge"]
            ELSE ResetDone(b, rst, a)
      [] b.d.pc = "allow_sync" -> AllowLoop(b, a)
      [] b.d.pc = "idle_sync" -> DriveLoop(b, a)
      [] b.d.pc = "sync" ->
            LET s == SyncOnClk(kind, b.d.sync, vld, rdy) IN
            IF s = "done" THEN AfterSync(b, a) ELSE [b EXCEPT !.d.sync = s]
      [] OTHER -> b

DrvSet(b) ==
    /\ drv' = b.d
    /\ vld' = b.vld
    /\ data' = b.data
    /\ taken' = b.taken
    /\ ifWrites' = b.ifw
    /\ drvRelease' = b.rel

DrvInit ==
    /\ drv = [pc |-> "rst_sync", sync |-> "none", queue |-> <<>>,
              event |-> FALSE, flushevt |-> FALSE]
    /\ allowGen \in AllowGens
    /\ wrlog = <<>>
    /\ taken = <<>>
    /\ ifWrites = <<>>
    /\ xfers = <<>>
    /\ drvRelease = <<>>

\* A rising clock edge: the design under test takes the data when vld and rdy
\* are both asserted, and the drive activity runs if it waits for the clock.
DrvTick ==
    /\ xfers' = IF kind = "handshake" /\ vld = 1 /\ rdy = 1
                THEN Append(xfers, data) ELSE xfers
    /\ \E a \in AllowNext(allowGen) : DrvSet(DriveOnClk(DrvState, a))
    /\ UNCHANGED <<cfgVars, rst, rdy, allowGen, wrlog, restOfDrv>>

\* Another activity calls Driver.write(item); a drive activity suspended in
\* self._event.wait() resumes, clears the event and aligns to the clock.
DrvCallWrite ==
    /\ Len(wrlog) < MaxWrites
    /\ \E item \in DataVals :
        /\ wrlog' = Append(wrlog, item)
        /\ LET w == DriverWrite(drv, item) IN
           drv' = IF w.pc = "evt_wait" /\ w.event
                  THEN [w EXCEPT !.event = FALSE, !.pc = "idle_sync"]
                  ELSE w
    /\ UNCHANGED <<cfgVars, sigVars, allowGen, taken, ifWrites, xfers,
                   drvRelease, restOfDrv>>

\* The receiving side changes rdy; RisingEdge(rdy) resumes a drive activity
\* suspended on it.
DrvEnvRdy ==
    /\ rdy' = 1 - rdy
    /\ drv' = IF rdy' = 1 /\ drv.pc = "sync" /\ kind = "handshake"
              THEN [drv EXCEPT !.sync = HsSyncOnRise(@, "rdy")]
              ELSE drv
    /\ UNCHANGED <<cfgVars, rst, vld, data, allowGen, wrlog, taken, ifWrites,
                   xfers, drvRelease, restOfDrv>>

\* The reset signal changes: Edge(rst) resumes a drive activity suspended in
\* RegisterInterface._wait_reset, which then returns.
DrvEnvRst ==
    /\ \E r \in RstVals \ {rst} :
        /\ rst' = r
        /\ IF drv.pc = "rst_edge"
           THEN \E a \in AllowNext(allowGen) : DrvSet(ResetDone(DrvState, r, a))
           ELSE UNCHANGED <<drv, vld, data, taken, ifWrites, drvRelease>>
    /\ UNCHANGED <<cfgVars, rdy, allowGen, wrlog, xfers, restOfDrv>>

\* ------------------------------------------- the two Driver classes, called
\* The outcome of a _read: what it returned (<<>> is None), whether it raised,
\* and the oldest entry the queue held when it was called.
NoRead == [called |-> FALSE, raised |-> FALSE, ret |-> <<>>, oldest |-> <<>>]

Oldest(d) == IF Len(d.queue) = 0 THEN <<>> ELSE <<Head(d.queue)>>

\* Driver._read (component.py) as a call: IndexError on an empty queue is
\* caught and None returned.
DriverReadCall(d) == IF DriverReady(d) THEN DriverRead(d) ELSE d

DriverReadResult(d) ==
    [called |-> TRUE, raised |-> FALSE, ret |-> Oldest(d), oldest |-> Oldest(d)]

\* Driver.write (driver.py).
LegacyWrite(d, item) ==
    [d EXCEPT !.queue = Append(@, item), !.event = TRUE]

\* Driver._read (driver.py): deque has no popLeft, so the call raises
\* AttributeError, which "except IndexError" does not catch; the queue is
\* left as it was.
LegacyRead(d) == d

LegacyReadResult(d) ==
    [called |-> TRUE, raised |-> TRUE, ret |-> <<>>, oldest |-> Oldest(d)]

QueueInit ==
    /\ cq = [queue |-> <<>>, event |-> FALSE, flushevt |-> FALSE]
    /\ cres = NoRead
    /\ lq = [queue |-> <<>>, event |-> FALSE]
    /\ lres = NoRead

CompWrite ==
    /\ Len(cq.queue) < MaxWrites
    /\ \E item \in DataVals : cq' = DriverWrite(cq, item)
    /\ UNCHANGED <<restOfQueue, cres, lq, lres>>

CompRead ==
    /\ cq' = DriverReadCall(cq)
    /\ cres' = DriverReadResult(cq)
    /\ UNCHANGED <<restOfQueue, lq, lres>>

LegWrite ==
    /\ Len(lq.queue) < MaxWrites
    /\ \E item \in DataVals : lq' = LegacyWrite(lq, item)
    /\ UNCHANGED <<restOfQueue, cq, cres, lres>>

LegRead ==
    /\ lq' = LegacyRead(lq)
    /\ lres' = LegacyReadResult(lq)
    /\ UNCHANGED <<restOfQueue, cq, cres>>

\* ------------------------------------------------------------ Driver.flush
Flushers == {"fa", "fb"}

\* An activity that is not in Driver.flush. pops counts, up to MaxWrites, the
\* pops of the drive loop it has waited through.
NotFlushing == [pc |-> "idle", pops |-> 0]

\* Driver.flush up to its first yield: with data in the queue the flush event
\* is cleared and the activity waits for it; with none it yields NullTrigger
\* and returns.
FlushStart(d) ==
    IF DriverReady(d)
    THEN [d |-> [d EXCEPT !.flushevt = FALSE], x |-> [pc |-> "wait", pops |-> 0]]
    ELSE [d |-> d, x |-> NotFlushing]

\* After a pop of Driver._read: the flush event, when the pop set it,
\* releases every activity that waits for it. (An activity that waits has
\* cleared the event, and a set releases all that wait, so the event is set
\* after the pop only if the pop set it.)
FlushWake(d, f) ==
    [a \in Flushers |->
        IF f[a].pc = "wait"
        THEN IF d.flushevt
             THEN [f[a] EXCEPT !.pc = "woken"]
             ELSE [f[a] EXCEPT !.pops = IF @ < MaxWrites THEN @ + 1 ELSE @]
        ELSE f[a]]

FlushInit == fl = [a \in Flushers |-> NotFlushing]

\* An activity calls Driver.flush.
FlushCall(a) ==
    /\ fl[a].pc = "idle"
    /\ cq' = FlushStart(cq).d
    /\ fl' = [fl EXCEPT ![a] = FlushStart(cq).x]
    /\ UNCHANGED <<cres, lq, lres, restOfFlush>>

\* A released activity goes on: it yields NullTrigger and flush returns.
FlushResume(a) ==
    /\ fl[a].pc = "woken"
    /\ fl' = [fl EXCEPT ![a] = NotFlushing]
    /\ UNCHANGED <<queueVars, restOfFlush>>

\* The drive loop calls Driver._read.
FlushPop ==
    /\ cq' = DriverReadCall(cq)
    /\ cres' = DriverReadResult(cq)
    /\ fl' = IF DriverReady(cq) THEN FlushWake(DriverReadCall(cq), fl) ELSE fl
    /\ UNCHANGED <<lq, lres, restOfFlush>>

\* --------------------------------------------------------------- bus layer
OP_WRITE == 0
OP_READ == 1

beWidth == 4        \* len(interface.be) of the bus interface
baseAddr == 64      \* the baseAddr the BusAgent was constructed with

Readers == {"ra", "rb"}
Addrs == 0..MaxAddr

Transaction(addr, d, be, op) ==
    [addr |-> addr, data |-> d, be |-> be, op |-> op]

\* The argument of a BusAgent.read: an int, a list of at most burst addresses,
\* or something that is neither. The addresses are of A.
ReadInputs(A, burst) ==
    {[type |-> "int", addrs |-> <<a>>] : a \in A}
        \cup {[type |-> "list", addrs |-> l] :
                    l \in UNION {[1..n -> A] : n \in 0..burst}}
        \cup {[type |-> "other", addrs |-> <<>>]}

\* An activity that is not in BusAgent.read: ret is <<>>, or <<v>> for the
\* value the last read returned; type is the type of the addr it was given,
\* before the out-port's list of in-ports when it was called.
NotReading ==
    [pc |-> "idle", port |-> 0, addrs |-> <<>>, got |-> <<>>, seen |-> <<>>,
     ret |-> <<>>, type |-> "none", before |-> <<>>]

\* The state BusAgent.read and the delivery of a response work on.
BusState ==
    [inports |-> inports, ports |-> ports, event |-> rdEvent, wr |-> busWr,
     rd |-> rd]

BusSet(b) ==
    /\ inports' = b.inports
    /\ ports' = b.ports
    /\ rdEvent' = b.event
    /\ busWr' = b.wr
    /\ rd' = b.rd

\* A write whose default be is 1 << beWidth.
BusWriteShiftOnly(wr, addr, d, be, op) ==
    DriverWrite(wr, Transaction(addr, d,
                                IF be = <<>> THEN 2^beWidth ELSE be[1],
                                op))

\* BusAgent.write: be defaults to all ones over the width of the be signal;
\* the Transaction goes to the write driver's queue. be is <<>> for None.
BusWrite(wr, addr, d, be, op) ==
    DriverWrite(wr, Transaction(addr, d,
                                IF be = <<>> THEN 2^beWidth - 1 ELSE be[1],
                                op))

\* A burst written out from its last address to its first.
RECURSIVE WriteBurstBackwards(_, _)
WriteBurstBackwards(wr, addrList) ==
    IF addrList = <<>>
    THEN wr
    ELSE BusWrite(WriteBurstBackwards(wr, Tail(addrList)), Head(addrList),
                  baseAddr, <<>>, OP_READ)

\* BusAgent.write called without op: op is OP_WRITE.
BusWriteNoOp(wr, addr, d, be) == BusWrite(wr, addr, d, be, OP_WRITE)

\* The loop of BusAgent.read that writes out the burst.
RECURSIVE WriteBurst(_, _)
WriteBurst(wr, addrList) ==
    IF addrList = <<>>
    THEN wr
    ELSE WriteBurst(BusWrite(wr, Head(addrList), baseAddr, <<>>, OP_READ),
                    Tail(addrList))

\* A behaviour callback that leaves the event alone.
BusBehaviorNoSet(ev) == ev

\* BusAgent._behavior: set the read event.
BusBehavior(ev) == TRUE

\* OutPort.connect.
OutPortConnect(inps, p) == Append(inps, p)

\* A disconnect that deletes the first entry of the list when the in-port
\* is found.
OutPortDisconnectHead(inps, p) ==
    IF \E i \in DOMAIN inps : inps[i] = p THEN Tail(inps) ELSE inps

\* OutPort.disconnect: delete the first occurrence of the in-port, if any.
OutPortDisconnect(inps, p) ==
    IF \E i \in DOMAIN inps : inps[i] = p
    THEN LET ridx == CHOOSE i \in DOMAIN inps :
                        inps[i] = p /\ \A j \in 1..(i - 1) : inps[j] # p
         IN SubSeq(inps, 1, ridx - 1) \o SubSeq(inps, ridx + 1, Len(inps))
    ELSE inps

\* InPort.ready and InPort.read on an in-port that holds data.
InPortReady(q) == q # <<>>
InPortRead(q) == [ret |-> Head(q), rest |-> Tail(q)]

\* InPort.write: the data joins the in-port's queue (and the block's
\* behaviour is scheduled, see OutPortWrite).
InPortWrite(q, d) == Append(q, d)

\* transList.append(trans) with the Transaction at the front.
ReadTakeFront(got, trans) == <<trans>> \o got

\* BusAgent.read: transList.append(trans).
ReadTake(got, trans) == Append(got, trans)

\* A read that does not clear the event before it waits.
ReadClearNot(ev) == ev

\* BusAgent.read: self.__rdEvent.clear().
ReadClear(ev) == FALSE

\* BusAgent.read from the disconnect on: the value returned is the one
\* Transaction when there is one, the list otherwise.
ReadFinish(b, r) ==
    LET me == b.rd[r] IN
    [b EXCEPT !.inports = OutPortDisconnect(@, me.port),
              !.rd[r].pc = "done",
              !.rd[r].ret = <<[single |-> Len(me.got) = 1, items |-> me.got]>>]

RECURSIVE ReadLoop(_, _), ReadWake(_, _)
\* BusAgent.read at the top of an iteration of "for each_read": clear the
\* event and wait for it. Event.wait returns at once when the event is set.
ReadLoop(b, r) ==
    IF Len(b.rd[r].got) = Len(b.rd[r].addrs)
    THEN ReadFinish(b, r)
    ELSE LET c == [b EXCEPT !.event = ReadClear(@)] IN
         IF c.event
         THEN ReadWake(c, r)
         ELSE [c EXCEPT !.rd[r].pc = "wait"]

\* BusAgent.read after the wait: assert the in-port is ready, read it, append
\* and go round the loop. A failed assertion ends the read with the in-port
\* still connected.
ReadWake(b, r) ==
    LET p == b.rd[r].port IN
    IF ~InPortReady(b.ports[p])
    THEN [b EXCEPT !.rd[r].pc = "failed"]
    ELSE LET x == InPortRead(b.ports[p]) IN
         ReadLoop([b EXCEPT !.ports[p] = x.rest,
                            !.rd[r].got = ReadTake(@, x.ret)], r)

\* BusAgent.read from the call to its first suspension: the new in-port is
\* connected before the type of addr is looked at.
ReadStart(b, r, inp) ==
    LET p == Len(b.ports) + 1
        c == [b EXCEPT !.ports = Append(@, <<>>),
                       !.inports = OutPortConnect(@, p)]
    IN IF inp.type = "other"
       THEN [c EXCEPT !.rd[r] = [NotReading EXCEPT !.pc = "raised", !.port = p,
                                                   !.type = inp.type,
                                                   !.before = b.inports]]
       ELSE ReadLoop([c EXCEPT !.wr = WriteBurst(@, inp.addrs),
                               !.rd[r] = [NotReading EXCEPT !.pc = "run",
                                                            !.port = p,
                                                            !.type = inp.type,
                                                            !.before = b.inports,
                                                            !.addrs = inp.addrs]],
                     r)

InProgress(x) == x.pc \in {"wait", "woken"}

\* What each read in progress has seen the read monitor publish.
Observe(b, d) ==
    [b EXCEPT !.rd = [r \in Readers |->
                        IF InProgress(b.rd[r])
                        THEN [b.rd[r] EXCEPT !.seen = Append(@, d)]
                        ELSE b.rd[r]]]

\* OutPort.write(data, execute_behavior=True) by the read monitor: the data
\* goes to every connected in-port, each schedules the behaviour of its block
\* (the bus agent), and the scheduled behaviours run. Setting the event
\* resumes the activities that wait for it.
OutPortWrite(b, d) ==
    LET ev == IF b.inports = <<>> THEN b.event ELSE BusBehavior(b.event) IN
    [b EXCEPT !.ports = [p \in DOMAIN b.ports |->
                            IF \E i \in DOMAIN b.inports : b.inports[i] = p
                            THEN InPortWrite(b.ports[p], d)
                            ELSE b.ports[p]],
              !.event = ev,
              !.rd = [r \in Readers |->
                        IF ev /\ b.rd[r].pc = "wait"
                        THEN [b.rd[r] EXCEPT !.pc = "woken"]
                        ELSE b.rd[r]]]

BusInit ==
    /\ inports = <<>>
    /\ ports = <<>>
    /\ rdEvent = FALSE
    /\ busWr = [queue |-> <<>>, event |-> FALSE, flushevt |-> FALSE]
    /\ rd = [r \in Readers |-> NotReading]
    /\ npub = 0
    /\ wrBefore = [r \in Readers |-> 0]

\* An activity calls BusAgent.read with at most burst addresses of A.
ReadCall(r, A, burst) ==
    /\ ~InProgress(rd[r])
    /\ Len(ports) < MaxReads
    /\ \E inp \in ReadInputs(A, burst) : BusSet(ReadStart(BusState, r, inp))
    /\ wrBefore' = [wrBefore EXCEPT ![r] = Len(busWrites)]
    /\ UNCHANGED <<npub, ramVars, restOfBus>>

\* An activity the event woke goes on.
ReadResume(r) ==
    /\ rd[r].pc = "woken"
    /\ BusSet(ReadWake(BusState, r))
    /\ UNCHANGED <<npub, wrBefore, ramVars, restOfBus>>

\* The read monitor publishes a Transaction it sampled at a clock edge, its
\* data one of D. An activity that an event woke goes on before simulation
\* time advances, so no clock edge finds one that has not.
Publish(D) ==
    /\ npub < MaxPublish
    /\ \A r \in Readers : rd[r].pc # "woken"
    /\ \E d \in D :
        LET t == Transaction(baseAddr, d, 2^beWidth - 1, OP_WRITE) IN
        BusSet(OutPortWrite(Observe(BusState, t), t))
    /\ npub' = npub + 1
    /\ UNCHANGED <<wrBefore, ramVars, restOfBus>>

\* The write driver takes the oldest request from its queue and drives it.
BusDrive ==
    /\ DriverReady(busWr)
    /\ busWr' = DriverRead(busWr)
    /\ UNCHANGED <<inports, ports, rdEvent, rd, npub, wrBefore, ramVars, restOfBus>>

\* ------------------------------------------------------- the RAM responder
BYTE_WIDTH == 8
BYTE_MASK == 2^BYTE_WIDTH - 1

\* x & BYTE_MASK for x >= 0.
MaskByte(x) == x % (BYTE_MASK + 1)

bpd == 4            \* bytes per data word of RamBlock and BusRamConvertBlock
defaultByte == 0    \* RamBlock's defaultByte

\* The data of the test's i-th write: byte k of the word is bpd * i + k, so
\* every byte of every write differs from the default byte and from every
\* other byte written.
RECURSIVE WordFrom(_, _)
WordFrom(i, k) ==
    IF k = bpd THEN 0
    ELSE (bpd * i + k) * 2^(BYTE_WIDTH * k) + WordFrom(i, k + 1)

\* The byte enables of the test: None, or bytes 0 and 2 only.
BeInputs == {<<>>, <<2^0 + 2^2>>}

\* self.__ram[byteAddr] = byte
RamPut(m, a, byte) ==
    [x \in DOMAIN m \cup {a} |-> IF x = a THEN byte ELSE m[x]]

\* self.__ram.get(byteAddr, self.__defaultByte)
RamGet(m, a) == IF a \in DOMAIN m THEN m[a] ELSE MaskByte(defaultByte)

\* A write that ignores the byte enable.
RECURSIVE RamWriteAllBytes(_, _, _, _, _)
RamWriteAllBytes(m, addr, d, be, each_byte) ==
    IF each_byte = bpd
    THEN m
    ELSE RamWriteAllBytes(RamPut(m, addr + each_byte, MaskByte(d)),
                          addr, d \div 2^BYTE_WIDTH, be \div 2, each_byte + 1)

\* RamBlock.write from byte each_byte on: the byte goes to addr + each_byte
\* when the lowest bit of be is set; data and be are shifted on.
RECURSIVE RamWriteFrom(_, _, _, _, _)
RamWriteFrom(m, addr, d, be, each_byte) ==
    IF each_byte = bpd
    THEN m
    ELSE RamWriteFrom(IF be % 2 = 1
                      THEN RamPut(m, addr + each_byte, MaskByte(d))
                      ELSE m,
                      addr, d \div 2^BYTE_WIDTH, be \div 2, each_byte + 1)

RamWrite(m, addr, d, be) == RamWriteFrom(m, addr, d, be, 0)

\* A read that puts byte 0 at the top of the word.
RECURSIVE RamReadTopFirst(_, _, _)
RamReadTopFirst(m, addr, each_byte) ==
    IF each_byte = bpd
    THEN 0
    ELSE RamGet(m, addr + each_byte) * 2^((bpd - 1 - each_byte) * BYTE_WIDTH)
            + RamReadTopFirst(m, addr, each_byte + 1)

\* RamBlock.read from byte each_byte on: byte k of the word is the byte at
\* addr + k, or the default byte.
RECURSIVE RamReadFrom(_, _, _)
RamReadFrom(m, addr, each_byte) ==
    IF each_byte = bpd
    THEN 0
    ELSE RamGet(m, addr + each_byte) * 2^(each_byte * BYTE_WIDTH)
            + RamReadFrom(m, addr, each_byte + 1)

RamRead(m, addr) == RamReadFrom(m, addr, 0)

\* RamBlock._ram_func: a Transaction with data is a write, one without
\* (data is <<>>) is a read whose word is returned.
RamFunc(m, trans) ==
    IF trans.data # <<>>
    THEN [ram |-> RamWrite(m, trans.addr, trans.data[1], trans.be), ret |-> <<>>]
    ELSE [ram |-> m, ret |-> <<RamRead(m, trans.addr)>>]

\* The Transaction the converter sends to the RAM: a write carries data, a
\* read none.
RamRequest(trans) ==
    IF trans.op = OP_WRITE
    THEN [addr |-> trans.addr, data |-> <<trans.data>>, be |-> trans.be]
    ELSE [addr |-> trans.addr, data |-> <<>>, be |-> trans.be]

\* A converter that takes every op other than OP_WRITE for a read.
BusRamConvertTwoWay(m, trans) ==
    IF trans.op = OP_WRITE
    THEN [ram |-> RamFunc(m, RamRequest(trans)).ram, reply |-> <<>>,
          raised |-> FALSE, ramReq |-> <<RamRequest(trans)>>]
    ELSE [ram |-> m,
          reply |-> <<Transaction(trans.data, RamFunc(m, RamRequest(trans)).ret[1],
                                  2^bpd - 1, OP_WRITE)>>,
          raised |-> FALSE, ramReq |-> <<RamRequest(trans)>>]

\* A converter that sends the reply to the address that was read.
BusRamConvertToAddr(m, trans) ==
    IF trans.op = OP_WRITE
    THEN [ram |-> RamFunc(m, RamRequest(trans)).ram, reply |-> <<>>,
          raised |-> FALSE, ramReq |-> <<RamRequest(trans)>>]
    ELSE IF trans.op = OP_READ
    THEN [ram |-> m,
          reply |-> <<Transaction(trans.addr, RamFunc(m, RamRequest(trans)).ret[1],
                                  2^bpd - 1, OP_WRITE)>>,
          raised |-> FALSE, ramReq |-> <<RamRequest(trans)>>]
    ELSE [ram |-> m, reply |-> <<>>, raised |-> TRUE, ramReq |-> <<>>]

\* BusRamConvertBlock._behavior on the Transaction its bus in-port holds: a
\* write goes to the RAM; a read goes to the RAM and the word that comes back
\* is sent to the address the request carried as data; any other op raises
\* ValueError. ramReq is what was written to ramOutport.
BusRamConvert(m, trans) ==
    IF trans.op = OP_WRITE
    THEN [ram |-> RamFunc(m, RamRequest(trans)).ram, reply |-> <<>>,
          raised |-> FALSE, ramReq |-> <<RamRequest(trans)>>]
    ELSE IF trans.op = OP_READ
    THEN LET f == RamFunc(m, RamRequest(trans))
         IN [ram |-> f.ram,
             reply |-> <<Transaction(trans.data, f.ret[1], 2^bpd - 1, OP_WRITE)>>,
             raised |-> FALSE, ramReq |-> <<RamRequest(trans)>>]
    ELSE [ram |-> m, reply |-> <<>>, raised |-> TRUE, ramReq |-> <<>>]

RamInit ==
    /\ ram = [x \in {} |-> 0]
    /\ replyQ = <<>>
    /\ busWrites = <<>>

\* The test calls BusAgent.write, before its read.
BusWriteCall ==
    /\ Len(busWrites) < MaxBusWrites
    /\ \A r \in Readers : rd[r].pc = "idle"
    /\ \E addr \in Addrs, be \in BeInputs :
        LET d == WordFrom(Len(busWrites) + 1, 0) IN
        /\ busWr' = BusWriteNoOp(busWr, addr, d, be)
        /\ busWrites' = Append(busWrites, [addr |-> addr, data |-> d, be |-> be])
    /\ UNCHANGED <<inports, ports, rdEvent, rd, npub, wrBefore, ram, replyQ, restOfBus>>

\* The oldest request of the write driver crosses the bus; the passive
\* agent's monitor publishes it to the converter, whose behaviour runs.
Serve ==
    /\ DriverReady(busWr)
    /\ LET c == BusRamConvert(ram, Head(busWr.queue)) IN
        /\ ram' = c.ram
        /\ replyQ' = replyQ \o c.reply
    /\ busWr' = DriverRead(busWr)
    /\ UNCHANGED <<inports, ports, rdEvent, rd, npub, wrBefore, busWrites, restOfBus>>

\* The oldest reply reaches the read interface and the read monitor
\* publishes it.
PublishReply ==
    /\ replyQ # <<>>
    /\ \A r \in Readers : rd[r].pc # "woken"
    /\ BusSet(OutPortWrite(Observe(BusState, Head(replyQ)), Head(replyQ)))
    /\ replyQ' = Tail(replyQ)
    /\ UNCHANGED <<npub, wrBefore, ram, busWrites, restOfBus>>

\* ------------------------------------------------- the two InPort classes
\* The outcome of the last call on an in-port: for a read, what it returned
\* (<<>> is None) and the oldest value the port held when it was called; for
\* a write, whether the writer was suspended and whether the block's
\* behaviour ran before the call returned.
NoCall ==
    [op |-> "none", raised |-> FALSE, ret |-> <<>>, oldest |-> <<>>,
     blocked |-> FALSE, inline |-> FALSE, left |-> <<>>]

\* InPort.__init__ (block.py): no queue yet.
AsyncInPortInit == [setup |-> FALSE, q |-> <<>>]

\* InPort._setup (block.py): a new Queue(maxsize=1).
AsyncInPortSetup(p) == [setup |-> TRUE, q |-> <<>>]

\* Queue.full() for maxsize=1.
AsyncFull(p) == Len(p.q) >= 1

\* InPort.write (block.py), await self.__data.put(data): without a queue the
\* attribute lookup on None raises; a full queue suspends the writer; else
\* the data joins the queue. w is the writing activity: [pc, val].
AsyncInPortWrite(p, w, d) ==
    IF ~p.setup
    THEN [p |-> p, w |-> w, res |-> [NoCall EXCEPT !.op = "write", !.raised = TRUE]]
    ELSE IF AsyncFull(p)
    THEN [p |-> p, w |-> [pc |-> "blocked", val |-> <<d>>],
          res |-> [NoCall EXCEPT !.op = "write", !.blocked = TRUE]]
    ELSE [p |-> [p EXCEPT !.q = Append(@, d)], w |-> w,
          res |-> [NoCall EXCEPT !.op = "write"]]

\* Queue.put resumed by a get: the loop tests full() again, then puts.
AsyncPutResume(p, w) ==
    IF AsyncFull(p)
    THEN [p |-> p, w |-> [w EXCEPT !.pc = "blocked"]]
    ELSE [p |-> [p EXCEPT !.q = Append(@, w.val[1])],
          w |-> [pc |-> "idle", val |-> <<>>]]

\* InPort.read (block.py), self.__data.get_nowait(): without a queue the
\* attribute lookup on None raises, which "except QueueEmpty" does not catch;
\* QueueEmpty gives None; a get wakes the suspended putter.
AsyncInPortRead(p, w) ==
    IF ~p.setup
    THEN [p |-> p, w |-> w,
          res |-> [NoCall EXCEPT !.op = "read", !.raised = TRUE]]
    ELSE IF p.q = <<>>
    THEN [p |-> p, w |-> w, res |-> [NoCall EXCEPT !.op = "read"]]
    ELSE [p |-> [p EXCEPT !.q = Tail(@)],
          w |-> IF w.pc = "blocked" THEN [w EXCEPT !.pc = "woken"] ELSE w,
          res |-> [NoCall EXCEPT !.op = "read", !.ret = <<Head(p.q)>>,
                                 !.oldest = <<Head(p.q)>>, !.left = Tail(p.q)]]

\* InPort.__init__ (verify/__init__.py): an empty deque; runs counts the calls
\* of the block's behavior.
LegacyInPortInit == [data |-> <<>>, runs |-> 0]

\* InPort.write (verify/__init__.py): append, then call the block's behavior.
LegacyInPortWrite(p, d) ==
    [p |-> [p EXCEPT !.data = Append(@, d), !.runs = @ + 1],
     res |-> [NoCall EXCEPT !.op = "write", !.inline = TRUE]]

\* InPort.read (verify/__init__.py): deque has no popLeft, so the call raises
\* AttributeError, which "except IndexError" does not catch, whatever the
\* deque holds; the deque is left as it was.
LegacyInPortRead(p) ==
    [p |-> p,
     res |-> [NoCall EXCEPT !.op = "read", !.raised = TRUE,
                            !.oldest = IF p.data = <<>> THEN <<>>
                                       ELSE <<Head(p.data)>>,
                            !.left = p.data]]

PortInit ==
    /\ aport = AsyncInPortInit
    /\ awriter = [pc |-> "idle", val |-> <<>>]
    /\ ares = NoCall
    /\ alog = [written |-> <<>>, reads |-> <<>>]
    /\ lport = LegacyInPortInit
    /\ lpres = NoCall
    /\ llog = [written |-> <<>>, reads |-> <<>>]

\* The harness sets the in-port up.
PortSetup ==
    /\ ~aport.setup
    /\ aport' = AsyncInPortSetup(aport)
    /\ UNCHANGED <<awriter, ares, alog, lport, lpres, llog, restOfPort>>

\* An activity writes to the in-port of block.py.
PortWrite ==
    /\ awriter.pc = "idle"
    /\ Len(alog.written) < MaxWrites
    /\ \E d \in DataVals :
        LET x == AsyncInPortWrite(aport, awriter, d) IN
        /\ aport' = x.p
        /\ awriter' = x.w
        /\ ares' = x.res
        /\ alog' = IF x.res.raised \/ x.res.blocked THEN alog
                   ELSE [alog EXCEPT !.written = Append(@, d)]
    /\ UNCHANGED <<lport, lpres, llog, restOfPort>>

\* The suspended writer, woken by a get, goes on.
PortPutResume ==
    /\ awriter.pc = "woken"
    /\ LET x == AsyncPutResume(aport, awriter) IN
        /\ aport' = x.p
        /\ awriter' = x.w
        /\ alog' = IF x.w.pc = "idle"
                   THEN [alog EXCEPT !.written = Append(@, awriter.val[1])]
                   ELSE alog
    /\ UNCHANGED <<ares, lport, lpres, llog, restOfPort>>

\* The in-port of block.py is read.
PortRead ==
    /\ LET x == AsyncInPortRead(aport, awriter) IN
        /\ aport' = x.p
        /\ awriter' = x.w
        /\ ares' = x.res
        /\ alog' = [alog EXCEPT !.reads = @ \o x.res.ret]
    /\ UNCHANGED <<lport, lpres, llog, restOfPort>>

\* The in-port of verify/__init__.py is written.
LegacyPortWrite ==
    /\ Len(llog.written) < MaxWrites
    /\ \E d \in DataVals :
        LET x == LegacyInPortWrite(lport, d) IN
        /\ lport' = x.p
        /\ lpres' = x.res
        /\ llog' = [llog EXCEPT !.written = Append(@, d)]
    /\ UNCHANGED <<aport, awriter, ares, alog, restOfPort>>

\* The in-port of verify/__init__.py is read.
LegacyPortRead ==
    /\ LET x == LegacyInPortRead(lport) IN
        /\ lport' = x.p
        /\ lpres' = x.res
        /\ llog' = [llog EXCEPT !.reads = @ \o x.res.ret]
    /\ UNCHANGED <<aport, awriter, ares, alog, restOfPort>>

\* ------------------------------------------------ the settle pass of main
\* Blocks are numbered in the order of their construction, which is the order
\* of _coroutines. Each has one in-port; a block with consumers has an
\* out-port connected to their in-ports and a behaviour that reads its
\* in-port and writes what it read to the out-port; a block without is a sink
\* whose behaviour reads its in-port.
Blocks == 1..MaxBlocks

RECURSIVE Reaches(_, _, _, _)
Reaches(f, a, b, n) ==
    /\ n > 0
    /\ \E i \in DOMAIN f[a] : f[a][i] = b \/ Reaches(f, f[a][i], b, n - 1)

\* The connect calls of the test: for each block the in-ports (by block) its
\* out-port is connected to, in connect order. The graph is acyclic.
ConnLists ==
    {s \in UNION {[1..n -> Blocks] : n \in 0..(MaxBlocks - 1)} :
        \A i, j \in DOMAIN s : i # j => s[i] # s[j]}
Graphs ==
    {f \in [Blocks -> ConnLists] : \A b \in Blocks : ~Reaches(f, b, b, MaxBlocks)}

\* No out-port is connected.
NoGraph == [b \in Blocks |-> <<>>]

NoTask == [pc |-> "none", idx |-> 0, ret |-> FALSE]

\* The state a task of the pass works on.
GraphState ==
    [gin |-> gin, put |-> gput, task |-> gtask, rdy |-> grdy,
     sched |-> sched, ran |-> ran]

GraphSet(g) ==
    /\ gin' = g.gin
    /\ gput' = g.put
    /\ gtask' = g.task
    /\ grdy' = g.rdy
    /\ sched' = g.sched
    /\ ran' = g.ran

\* OutPort.write (block.py) of block b from its idx-th in-port on: a put to
\* a full queue suspends the task, which joins the queue's putters; after the
\* last put _coroutine returns True, the out-port having been written.
RECURSIVE GraphSend(_, _, _)
GraphSend(g, b, idx) ==
    IF idx > Len(gconn[b])
    THEN [g EXCEPT !.task[b] = [pc |-> "done", idx |-> 0, ret |-> TRUE]]
    ELSE LET c == gconn[b][idx] IN
         IF g.gin[c] >= 1
         THEN [g EXCEPT !.task[b] = [pc |-> "blocked", idx |-> idx, ret |-> FALSE],
                        !.put[c] = Append(@, b)]
         ELSE GraphSend([g EXCEPT !.gin[c] = @ + 1, !.sched = Append(@, c)],
                        b, idx + 1)

\* Queue.get_nowait on the in-port of block b: take the item and wake the
\* first putter, which the event loop will run after the tasks now ready.
GraphGet(g, b) ==
    IF g.put[b] = <<>>
    THEN [g EXCEPT !.gin[b] = @ - 1]
    ELSE [g EXCEPT !.gin[b] = @ - 1,
                   !.put[b] = Tail(@),
                   !.task[Head(g.put[b])].pc = "woken",
                   !.rdy = Append(@, Head(g.put[b]))]

\* Block._coroutine of block b: with its in-port ready the behaviour runs,
\* else it returns False.
GraphCoroutine(g, b) ==
    IF g.gin[b] >= 1
    THEN LET h == GraphGet([g EXCEPT !.ran = Append(@, b)], b) IN
         IF gconn[b] = <<>>
         THEN [h EXCEPT !.task[b] = [pc |-> "done", idx |-> 0, ret |-> FALSE]]
         ELSE GraphSend(h, b, 1)
    ELSE [g EXCEPT !.task[b] = [pc |-> "done", idx |-> 0, ret |-> FALSE]]

\* The event loop runs the task at the head of its ready queue up to its next
\* suspension or its end.
GraphRunTask(g, b) ==
    LET h == [g EXCEPT !.rdy = Tail(@)] IN
    IF h.task[b].pc = "ready"
    THEN GraphCoroutine(h, b)
    ELSE GraphSend(h, b, h.task[b].idx)

\* gather(*(coroutine() for coroutine in _coroutines)): one task for each
\* block, ready in the order of _coroutines.
GraphGather == [b \in Blocks |-> [pc |-> "ready", idx |-> 0, ret |-> FALSE]]

GraphInit ==
    /\ gin = [b \in Blocks |-> 0]
    /\ gput = [b \in Blocks |-> <<>>]
    /\ gtask = [b \in Blocks |-> NoTask]
    /\ grdy = <<>>
    /\ gpc = "idle"
    /\ sched = <<>>
    /\ ran = <<>>

\* Before main runs the test writes a value to the in-port of a block.
GraphFeed ==
    /\ gpc = "idle"
    /\ \E b \in Blocks :
        /\ gin[b] = 0
        /\ gin' = [gin EXCEPT ![b] = 1]
        /\ sched' = Append(sched, b)
    /\ UNCHANGED <<gconn, gput, gtask, grdy, gpc, ran, restOfGraph>>

\* main is run: the first gather.
GraphStart ==
    /\ gpc = "idle"
    /\ gpc' = "pass"
    /\ gtask' = GraphGather
    /\ grdy' = [i \in 1..MaxBlocks |-> i]
    /\ UNCHANGED <<gconn, gin, gput, sched, ran, restOfGraph>>

\* The event loop runs the next ready task.
GraphRun ==
    /\ gpc = "pass"
    /\ grdy # <<>>
    /\ GraphSet(GraphRunTask(GraphState, Head(grdy)))
    /\ UNCHANGED <<gconn, gpc, restOfGraph>>

\* Every task of the gather is done: main gathers again when any returned
\* True, and ends otherwise.
GraphPassEnd ==
    /\ gpc = "pass"
    /\ \A b \in Blocks : gtask[b].pc = "done"
    /\ IF \E b \in Blocks : gtask[b].ret
       THEN /\ gtask' = GraphGather
            /\ grdy' = [i \in 1..MaxBlocks |-> i]
            /\ gpc' = gpc
       ELSE /\ gtask' = [b \in Blocks |-> NoTask]
            /\ gpc' = "ended"
            /\ grdy' = grdy
    /\ UNCHANGED <<gconn, gin, gput, sched, ran, restOfGraph>>

\* ------------------------------------------------ the two OutPort classes
\* A test calls an OutPort of block.py or an OutPort of verify/__init__.py.
\* It has two in-ports to connect; those of block.py have their queue (_setup
\* has run).
OutIns == {"pa", "pb"}

\* The outcome of the last call on an out-port: the in-port given, whether
\* it was in the list, what the call returned and, for a write, the in-ports
\* written to, in order.
NoOutCall ==
    [op |-> "none", port |-> "none", found |-> FALSE, ret |-> "None",
     sent |-> <<>>]

\* The index of the first occurrence of in-port p in the list, 0 for none:
\* ridx of OutPort.disconnect (there None for none).
FirstIndex(inps, p) ==
    IF \E i \in DOMAIN inps : inps[i] = p
    THEN CHOOSE i \in DOMAIN inps : inps[i] = p /\ \A j \in 1..(i - 1) : inps[j] # p
    ELSE 0

\* OutPort.disconnect (block.py) returns the block of the in-port, whether or
\* not it found the in-port.
OutPortDisconnectRet(inps, p) == "block"

\* OutPort.connect (verify/__init__.py).
LegacyOutPortConnect(inps, p) == Append(inps, p)

\* OutPort.disconnect (verify/__init__.py): delete the first occurrence of the
\* in-port and return True, or return False.
LegacyOutPortDisconnect(inps, p) ==
    LET ridx == FirstIndex(inps, p) IN
    IF ridx # 0
    THEN [inps |-> SubSeq(inps, 1, ridx - 1) \o SubSeq(inps, ridx + 1, Len(inps)),
          ret |-> "True"]
    ELSE [inps |-> inps, ret |-> "False"]

\* OutPort.write (verify/__init__.py): InPort.write on each in-port of the
\* list, in list order. dq gives each in-port's state.
RECURSIVE LegacyOutPortWrite(_, _, _)
LegacyOutPortWrite(inps, dq, d) ==
    IF inps = <<>>
    THEN [dq |-> dq, sent |-> <<>>]
    ELSE LET x == LegacyOutPortWrite(
                      Tail(inps),
                      [dq EXCEPT ![Head(inps)] = LegacyInPortWrite(@, d).p], d)
         IN [dq |-> x.dq, sent |-> <<Head(inps)>> \o x.sent]

\* No OutPort.write (block.py) has been called since the last connect or
\* disconnect. idx is the index the list iterator of a write has reached,
\* port the in-port it awaits, sent the in-ports it has written to, changed
\* whether a connect or disconnect was called while it was suspended.
NoOutWrite ==
    [pc |-> "idle", idx |-> 0, port |-> "none", data |-> 0, sent |-> <<>>,
     changed |-> FALSE]

OutWriting(w) == w.pc \in {"blocked", "woken"}

\* An OutPort.write whose iterator skips the first in-port of the list.
RECURSIVE AsyncOutPortSendSkip(_, _, _)
AsyncOutPortSendSkip(inps, q, w) ==
    IF w.idx + 1 >= Len(inps)
    THEN [q |-> q, w |-> [w EXCEPT !.pc = "done"]]
    ELSE LET p == inps[w.idx + 2] IN
         IF AsyncFull([setup |-> TRUE, q |-> q[p]])
         THEN [q |-> q, w |-> [w EXCEPT !.pc = "blocked", !.idx = @ + 1, !.port = p]]
         ELSE AsyncOutPortSendSkip(
                  inps, [q EXCEPT ![p] = Append(@, w.data)],
                  [w EXCEPT !.idx = @ + 1, !.sent = Append(@, p)])

\* OutPort.write (block.py), the loop from where its iterator stands: the
\* iterator takes the next in-port of the list as the list is now, and the
\* write awaits that in-port's write, which suspends it when the queue is
\* full. q gives each in-port's queue.
RECURSIVE AsyncOutPortSend(_, _, _)
AsyncOutPortSend(inps, q, w) ==
    IF w.idx >= Len(inps)
    THEN [q |-> q, w |-> [w EXCEPT !.pc = "done"]]
    ELSE LET p == inps[w.idx + 1] IN
         IF AsyncFull([setup |-> TRUE, q |-> q[p]])
         THEN [q |-> q, w |-> [w EXCEPT !.pc = "blocked", !.idx = @ + 1, !.port = p]]
         ELSE AsyncOutPortSend(
                  inps, [q EXCEPT ![p] = Append(@, w.data)],
                  [w EXCEPT !.idx = @ + 1, !.sent = Append(@, p)])

\* OutPort.write (block.py) called with data d.
AsyncOutPortWrite(inps, q, d) ==
    AsyncOutPortSend(inps, q, [NoOutWrite EXCEPT !.data = d])

\* The suspended put goes on: the queue is tested again, the data is put and
\* the loop of OutPort.write goes on.
AsyncOutPortResume(inps, q, w) ==
    IF AsyncFull([setup |-> TRUE, q |-> q[w.port]])
    THEN [q |-> q, w |-> [w EXCEPT !.pc = "blocked"]]
    ELSE AsyncOutPortSend(
             inps, [q EXCEPT ![w.port] = Append(@, w.data)],
             [w EXCEPT !.sent = Append(@, w.port)])

\* The call of OutPort.write (block.py), which is write(self, data), with an
\* execute_behavior keyword: a TypeError before the body. kw is the set of
\* keywords given besides data.
OutPortWriteAccepts(kw) == kw = {}

\* What a call of the coroutine function OutPort.write (block.py) that is not
\* awaited delivers: the body never runs.
UnawaitedWrite(q, d) == q

\* The converter has run no behaviour. raised: the behaviour raised;
\* ramReady: what ramInport.ready() gave at the assertion, <<>> when it was
\* not reached; reply: the Transaction written to busOutport.
NoConv ==
    [op |-> <<>>, raised |-> FALSE, ramReady |-> <<>>, reply |-> <<>>]

\* BusRamConvertBlock._behavior on the request trans read from busInport,
\* with the out-ports of block.py: ramq is the queue of the RAM's in-port,
\* ramIn the queue of ramInport.
ConvBehavior(trans, ramq, ramIn) ==
    IF trans.op = OP_WRITE
    THEN [ramq |-> UnawaitedWrite(ramq, trans), ramIn |-> ramIn,
          res |-> [NoConv EXCEPT !.op = <<trans.op>>]]
    ELSE IF ~OutPortWriteAccepts({"execute_behavior"})
    THEN [ramq |-> ramq, ramIn |-> ramIn,
          res |-> [NoConv EXCEPT !.op = <<trans.op>>, !.raised = TRUE]]
    ELSE [ramq |-> UnawaitedWrite(ramq, trans), ramIn |-> ramIn,
          res |-> [NoConv EXCEPT !.op = <<trans.op>>,
                                 !.ramReady = <<InPortReady(ramIn)>>,
                                 !.raised = ~InPortReady(ramIn),
                                 !.reply = IF InPortReady(ramIn)
                                           THEN <<Transaction(trans.data, Head(ramIn),
                                                              2^bpd - 1, OP_WRITE)>>
                                           ELSE <<>>]]

\* The OutPort classes: that of block.py and that of verify/__init__.py.
OutClasses == {"block", "verify"}

\* A test that uses the OutPort class c has constructed its ports.
OutInitWith(c) ==
    /\ ocls = c
    /\ oin = <<>>
    /\ oq = [p \in OutIns |-> <<>>]
    /\ owr = NoOutWrite
    /\ olast = NoOutCall
    /\ lin = <<>>
    /\ ldq = [p \in OutIns |-> LegacyInPortInit]
    /\ llast = NoOutCall
    /\ ocnt = [p \in OutIns |-> 0]
    /\ onwr = 0
    /\ convIn = <<>>
    /\ conv = NoConv

OutInit == OutInitWith("block")

\* connect(p) on the out-port of block.py.
OutConnect ==
    /\ ocls = "block"
    /\ Len(oin) < MaxConn
    /\ \E p \in OutIns :
        /\ oin' = OutPortConnect(oin, p)
        /\ olast' = [NoOutCall EXCEPT !.op = "connect", !.port = p]
        /\ ocnt' = [ocnt EXCEPT ![p] = @ + 1]
    /\ owr' = IF OutWriting(owr) THEN [owr EXCEPT !.changed = TRUE] ELSE NoOutWrite
    /\ UNCHANGED <<ocls, oq, lin, ldq, llast, onwr, convIn, conv, restOfOut>>

\* disconnect(p) on the out-port of block.py.
OutDisconnect ==
    /\ ocls = "block"
    /\ \E p \in OutIns :
        /\ oin' = OutPortDisconnect(oin, p)
        /\ olast' = [NoOutCall EXCEPT !.op = "disconnect", !.port = p,
                                      !.found = FirstIndex(oin, p) # 0,
                                      !.ret = OutPortDisconnectRet(oin, p)]
        /\ ocnt' = [ocnt EXCEPT ![p] = IF @ > 0 THEN @ - 1 ELSE 0]
    /\ owr' = IF OutWriting(owr) THEN [owr EXCEPT !.changed = TRUE] ELSE NoOutWrite
    /\ UNCHANGED <<ocls, oq, lin, ldq, llast, onwr, convIn, conv, restOfOut>>

\* write(d) on the out-port of block.py, d the number of the write.
OutWrite ==
    /\ ocls = "block"
    /\ ~OutWriting(owr)
    /\ onwr < MaxOutWrites
    /\ onwr' = onwr + 1
    /\ LET x == AsyncOutPortWrite(oin, oq, onwr + 1) IN
        /\ oq' = x.q
        /\ owr' = x.w
    /\ olast' = [NoOutCall EXCEPT !.op = "write"]
    /\ UNCHANGED <<ocls, oin, lin, ldq, llast, ocnt, convIn, conv, restOfOut>>

\* The suspended write of block.py, woken by a get, goes on.
OutResume ==
    /\ owr.pc = "woken"
    /\ LET x == AsyncOutPortResume(oin, oq, owr) IN
        /\ oq' = x.q
        /\ owr' = x.w
    /\ UNCHANGED <<ocls, oin, olast, lin, ldq, llast, ocnt, onwr, convIn, conv,
                   restOfOut>>

\* An in-port of block.py that holds data is read.
OutRead ==
    /\ \E p \in OutIns :
        /\ oq[p] # <<>>
        /\ LET x == AsyncInPortRead([setup |-> TRUE, q |-> oq[p]],
                                    IF owr.pc = "blocked" /\ owr.port = p
                                    THEN [pc |-> "blocked", val |-> <<>>]
                                    ELSE [pc |-> "idle", val |-> <<>>])
           IN /\ oq' = [oq EXCEPT ![p] = x.p.q]
              /\ owr' = IF x.w.pc = "woken" THEN [owr EXCEPT !.pc = "woken"] ELSE owr
    /\ UNCHANGED <<ocls, oin, olast, lin, ldq, llast, ocnt, onwr, convIn, conv,
                   restOfOut>>

\* connect(p) on the out-port of verify/__init__.py.
LegOutConnect ==
    /\ ocls = "verify"
    /\ Len(lin) < MaxConn
    /\ \E p \in OutIns :
        /\ lin' = LegacyOutPortConnect(lin, p)
        /\ llast' = [NoOutCall EXCEPT !.op = "connect", !.port = p]
        /\ ocnt' = [ocnt EXCEPT ![p] = @ + 1]
    /\ UNCHANGED <<ocls, oin, oq, owr, olast, ldq, onwr, convIn, conv, restOfOut>>

\* disconnect(p) on the out-port of verify/__init__.py.
LegOutDisconnect ==
    /\ ocls = "verify"
    /\ \E p \in OutIns :
        /\ lin' = LegacyOutPortDisconnect(lin, p).inps
        /\ llast' = [NoOutCall EXCEPT !.op = "disconnect", !.port = p,
                                      !.found = FirstIndex(lin, p) # 0,
                                      !.ret = LegacyOutPortDisconnect(lin, p).ret]
        /\ ocnt' = [ocnt EXCEPT ![p] = IF @ > 0 THEN @ - 1 ELSE 0]
    /\ UNCHANGED <<ocls, oin, oq, owr, olast, ldq, onwr, convIn, conv, restOfOut>>

\* write(d) on the out-port of verify/__init__.py, d the number of the write.
LegOutWrite ==
    /\ ocls = "verify"
    /\ onwr < MaxOutWrites
    /\ onwr' = onwr + 1
    /\ LET y == LegacyOutPortWrite(lin, ldq, onwr + 1) IN
        /\ ldq' = y.dq
        /\ llast' = [NoOutCall EXCEPT !.op = "write", !.sent = y.sent]
    /\ UNCHANGED <<ocls, oin, oq, owr, olast, lin, ocnt, convIn, conv, restOfOut>>

\* The passive agent's monitor has put a request in the converter's
\* busInport.
ConvFeed ==
    /\ convIn = <<>>
    /\ \E op \in {OP_WRITE, OP_READ} :
        convIn' = <<Transaction(0, 1, 2^beWidth - 1, op)>>
    /\ UNCHANGED <<ocls, oin, oq, owr, olast, lin, ldq, llast, ocnt, onwr, conv,
                   restOfOut>>

\* The converter's behaviour runs on the request in busInport; the RAM's
\* in-port and ramInport are empty.
ConvRun ==
    /\ InPortReady(convIn)
    /\ conv' = ConvBehavior(InPortRead(convIn).ret, <<>>, <<>>).res
    /\ convIn' = InPortRead(convIn).rest
    /\ UNCHANGED <<ocls, oin, oq, owr, olast, lin, ldq, llast, ocnt, onwr, restOfOut>>

\* ------------------------------------------------- the Interface class
\* The signal names a test may give, and the Interface classes.
IfNames == {"clk", "rst", "vld", "rdy", "data"}
IfClasses == {"Interface", "Register", "Handshake"}
Bits == {0, 1}

\* _cntrl of Interface, RegisterInterface and HandshakeInterface.
Cntrl(cls) ==
    CASE cls = "Interface" -> {}
      [] cls = "Register" -> {"clk", "rst"}
      [] OTHER -> {"clk", "rst", "vld", "rdy"}

\* The names of the keyword arguments.
Supplied(kw) == {n \in IfNames : kw[n] # "absent"}

NoKw == [n \in IfNames |-> "absent"]
NoIface == [made |-> FALSE, raised |-> FALSE, members |-> {}]

\* A Transaction (and a dict of keyword arguments): a function from its
\* attribute names to <<v>>, or <<>> for None.
NoTrans == [n \in {} |-> <<>>]
NoIfCall == [op |-> "none", asked |-> {}, val |-> 0, ret |-> NoTrans,
             before |-> [n \in IfNames |-> 0]]

\* Interface.__init__: TypeError unless every value is a handle, then
\* TypeError unless every supplied name is in _cntrl; then the names become
\* the attributes.
InterfaceInit(cls, kw) ==
    IF ~(\A n \in Supplied(kw) : kw[n] = "signal")
    THEN [made |-> TRUE, raised |-> TRUE, members |-> {}]
    ELSE IF ~(\A n \in Supplied(kw) : n \in Cntrl(cls))
    THEN [made |-> TRUE, raised |-> TRUE, members |-> {}]
    ELSE [made |-> TRUE, raised |-> FALSE, members |-> Supplied(kw)]

\* "name is not self._cntrl": a name is a str and _cntrl a list, so the test
\* holds of every name.
IsNotCntrl(name, cls) == TRUE

\* getattr(data, name, None), data being the dict of the keyword arguments: a
\* dict has its keys as items, not as attributes, and none of the signal
\* names is a method of dict, so the default is returned.
GetattrOfDict(kwargs, name) == <<>>

\* getattr(trans, name, None) on a Transaction.
GetattrOfTrans(trans, name) ==
    IF name \in DOMAIN trans THEN trans[name] ELSE <<>>

\* Interface.transaction(**data).
InterfaceTransaction(members, cls, kwargs) ==
    [n \in {m \in members : IsNotCntrl(m, cls)} |-> GetattrOfDict(kwargs, n)]

\* Interface.write(trans): the signal values after the call.
InterfaceWrite(members, cls, trans, sig) ==
    [n \in IfNames |->
        IF n \in members /\ IsNotCntrl(n, cls) /\ GetattrOfTrans(trans, n) # <<>>
        THEN GetattrOfTrans(trans, n)[1]
        ELSE sig[n]]

\* Interface.read() of an interface with the given attributes.
InterfaceReadOf(members, cls, sig) ==
    [n \in {m \in members : IsNotCntrl(m, cls)} |-> <<sig[n]>>]

\* RegisterDriver._write_default: the transaction of the interface with the
\* defaults given, None replaced by 0, written to the interface.
WriteDefault(members, cls, default, sig) ==
    LET trans == InterfaceTransaction(members, cls, default)
        filled == [n \in DOMAIN trans |->
                        IF trans[n] = <<>> THEN <<0>> ELSE trans[n]]
    IN  InterfaceWrite(members, cls, filled, sig)

\* The Transaction (or keyword arguments) that gives v to each name asked.
TransOf(asked, v) == [n \in asked |-> <<v>>]

IfInitWith(c, kw) ==
    /\ icls = c
    /\ ikw = kw
    /\ iface = NoIface
    /\ isig = [n \in IfNames |-> 0]
    /\ ilast = NoIfCall

IfInit == IfInitWith("Interface", NoKw)

IfBuilt == iface.made /\ ~iface.raised

\* The test constructs the interface.
IfConstruct ==
    /\ ~iface.made
    /\ iface' = InterfaceInit(icls, ikw)
    /\ UNCHANGED <<icls, ikw, isig, ilast, restOfIf>>

\* interface.transaction(**overrides).
IfTransaction ==
    /\ IfBuilt
    /\ \E asked \in SUBSET IfNames, v \in Bits :
        ilast' = [op |-> "transaction", asked |-> asked, val |-> v,
                  ret |-> InterfaceTransaction(iface.members, icls,
                                               TransOf(asked, v)),
                  before |-> isig]
    /\ UNCHANGED <<icls, ikw, iface, isig, restOfIf>>

\* interface.write(trans).
IfWrite ==
    /\ IfBuilt
    /\ \E asked \in SUBSET IfNames, v \in Bits :
        /\ isig' = InterfaceWrite(iface.members, icls, TransOf(asked, v), isig)
        /\ ilast' = [op |-> "write", asked |-> asked, val |-> v,
                     ret |-> NoTrans, before |-> isig]
    /\ UNCHANGED <<icls, ikw, iface, restOfIf>>

\* interface.read().
IfRead ==
    /\ IfBuilt
    /\ ilast' = [op |-> "read", asked |-> {}, val |-> 0,
                 ret |-> InterfaceReadOf(iface.members, icls, isig),
                 before |-> isig]
    /\ UNCHANGED <<icls, ikw, iface, isig, restOfIf>>

\* The default write of a RegisterDriver on the interface.
IfWriteDefault ==
    /\ IfBuilt /\ icls # "Interface"
    /\ \E asked \in SUBSET IfNames, v \in Bits :
        /\ isig' = WriteDefault(iface.members, icls, TransOf(asked, v), isig)
        /\ ilast' = [op |-> "default", asked |-> asked, val |-> v,
                     ret |-> NoTrans, before |-> isig]
    /\ UNCHANGED <<icls, ikw, iface, restOfIf>>

\* ------------------------------------------------------------ Namespace
\* The attribute names a test may give a Namespace; "size" is also the name
\* of a method of the class.
NsNames == {"a", "b", "size"}
NsMethods == {"size"}

\* The Namespaces over these names with bit values.
Namespaces == UNION {[D -> Bits] : D \in SUBSET NsNames}

\* hasattr(ns, mem): an attribute of the instance or of its class.
Hasattr(ns, mem) == mem \in DOMAIN ns \/ mem \in NsMethods

\* getattr(ns, mem) where hasattr holds: <<v>> for the instance's value, <<>>
\* for the bound method of the class, which equals no value.
Getattr(ns, mem) == IF mem \in DOMAIN ns THEN <<ns[mem]>> ELSE <<>>

\* Namespace.issubsetof.
IsSubsetOf(x, y) ==
    \A mem \in DOMAIN x : Hasattr(y, mem) /\ Getattr(y, mem) = <<x[mem]>>

\* ns.size(): an instance attribute named size hides the method, and calling
\* its value raises TypeError.
NsSize(ns) ==
    IF "size" \in DOMAIN ns
    THEN [raised |-> TRUE, n |-> 0]
    ELSE [raised |-> FALSE, n |-> Cardinality(DOMAIN ns)]

\* Namespace.isequalto: "and" calls size() only when issubsetof holds.
IsEqualTo(x, y) ==
    IF ~IsSubsetOf(x, y) THEN "False"
    ELSE IF NsSize(x).raised \/ NsSize(y).raised THEN "TypeError"
    ELSE IF NsSize(x).n = NsSize(y).n THEN "True"
    ELSE "False"

\* Namespace.__eq__.
NsEq(x, y) == IsEqualTo(x, y)

NsNotCalled == [ab |-> <<>>, ba |-> <<>>, eq |-> <<>>]

NsInitWith(x, y) ==
    /\ nsA = x
    /\ nsB = y
    /\ nsRes = NsNotCalled

NsInit == NsInitWith(<<>>, <<>>)

\* A.isequalto(B).
NsCallAB ==
    /\ nsRes' = [nsRes EXCEPT !.ab = <<IsEqualTo(nsA, nsB)>>]
    /\ UNCHANGED <<nsA, nsB, restOfNs>>

\* B.isequalto(A).
NsCallBA ==
    /\ nsRes' = [nsRes EXCEPT !.ba = <<IsEqualTo(nsB, nsA)>>]
    /\ UNCHANGED <<nsA, nsB, restOfNs>>

\* A == B.
NsCallEq ==
    /\ nsRes' = [nsRes EXCEPT !.eq = <<NsEq(nsA, nsB)>>]
    /\ UNCHANGED <<nsA, nsB, restOfNs>>

\* ------------------------------------------------- HandshakeReadDriver
\* The state a step of the read driver's drive activity works on.
RdState == [d |-> drv, rdy |-> rdy]

\* HandshakeReadDriver._write, a being the value of next(self.allow): stall
\* one clock with rdy low, or raise rdy and enter _synchronize.
RdAllowLoop(b, a) ==
    IF a
    THEN [b EXCEPT !.rdy = 1, !.d.pc = "sync", !.d.sync = "clk"]
    ELSE [b EXCEPT !.rdy = 0, !.d.pc = "allow_sync"]

\* HandshakeReadDriver._drive resumed by a rising clock edge.
RdDriveOnClk(b, a) ==
    CASE b.d.pc = "rst_sync" ->
            IF ResetBlocks(rst, rstMode)
            THEN [b EXCEPT !.d.pc = "rst_edge"]
            ELSE RdAllowLoop(b, a)
      [] b.d.pc = "allow_sync" -> RdAllowLoop(b, a)
      [] b.d.pc = "sync" ->
            LET s == SyncOnClk("handshake", b.d.sync, vld, b.rdy) IN
            IF s = "done" THEN RdAllowLoop(b, a) ELSE [b EXCEPT !.d.sync = s]
      [] OTHER -> b

\* The write inherited from Driver, which the read driver overrides.
ReadDriverWriteInherited(d, item) ==
    [d |-> DriverWrite(d, item), raised |-> FALSE]

\* HandshakeReadDriver.write: raises NotImplementedError.
ReadDriverWrite(d, item) == [d |-> d, raised |-> TRUE]

\* HandshakeReadDriver.inport: the property raises NotImplementedError.
ReadDriverInport(d) == [d |-> d, raised |-> TRUE]

\* HandshakeReadDriver.flush: the coroutine raises NotImplementedError when
\* it is first run, before its yield.
ReadDriverFlush(d) == [d |-> d, raised |-> TRUE]

NoRdCall == [op |-> "none", raised |-> FALSE]

RdInit == rcall = NoRdCall

\* A rising clock edge.
RdTick ==
    /\ \E a \in AllowNext(allowGen) :
        LET b == RdDriveOnClk(RdState, a) IN drv' = b.d /\ rdy' = b.rdy
    /\ UNCHANGED <<cfgVars, rst, vld, data, allowGen, wrlog, taken, ifWrites,
                   xfers, drvRelease, rcall, restOfRd>>

\* The sending side changes vld; RisingEdge(vld) resumes a drive activity
\* suspended on it.
RdEnvVld ==
    /\ vld' = 1 - vld
    /\ drv' = IF vld' = 1 /\ drv.pc = "sync"
              THEN [drv EXCEPT !.sync = HsSyncOnRise(@, "vld")]
              ELSE drv
    /\ UNCHANGED <<cfgVars, rst, rdy, data, allowGen, wrlog, taken, ifWrites,
                   xfers, drvRelease, rcall, restOfRd>>

\* The reset signal changes: Edge(rst) resumes a drive activity suspended in
\* _wait_reset, which goes on into _write.
RdEnvRst ==
    /\ \E r \in RstVals \ {rst} :
        /\ rst' = r
        /\ IF drv.pc = "rst_edge"
           THEN \E a \in AllowNext(allowGen) :
                    LET b == RdAllowLoop(RdState, a) IN
                    drv' = b.d /\ rdy' = b.rdy
           ELSE UNCHANGED <<drv, rdy>>
    /\ UNCHANGED <<cfgVars, vld, data, allowGen, wrlog, taken, ifWrites,
                   xfers, drvRelease, rcall, restOfRd>>

\* A test calls write(item) on the read driver.
RdCallWrite ==
    /\ \E item \in DataVals :
        /\ drv' = ReadDriverWrite(drv, item).d
        /\ rcall' = [op |-> "write", raised |-> ReadDriverWrite(drv, item).raised]
    /\ UNCHANGED <<cfgVars, sigVars, allowGen, wrlog, taken, ifWrites, xfers,
                   drvRelease, restOfRd>>

\* A test reads the inport property of the read driver.
RdCallInport ==
    /\ drv' = ReadDriverInport(drv).d
    /\ rcall' = [op |-> "inport", raised |-> ReadDriverInport(drv).raised]
    /\ UNCHANGED <<cfgVars, sigVars, allowGen, wrlog, taken, ifWrites, xfers,
                   drvRelease, restOfRd>>

\* A test yields flush() of the read driver.
RdCallFlush ==
    /\ drv' = ReadDriverFlush(drv).d
    /\ rcall' = [op |-> "flush", raised |-> ReadDriverFlush(drv).raised]
    /\ UNCHANGED <<cfgVars, sigVars, allowGen, wrlog, taken, ifWrites, xfers,
                   drvRelease, restOfRd>>

\* ------------------------------------------- the passive responder, alone
\* The opcodes a bus Transaction may carry: OP_WRITE, OP_READ and others.
Ops == 0..MaxOp

\* The data field of a read request: the base address of the requester.
Tags == {baseAddr, baseAddr + 1}

\* The be of a bus Transaction and of a RamBlock.write whose be is omitted.
BeFull == 2^bpd - 1
BeValue(be) == IF be = <<>> THEN BeFull ELSE be[1]

NoServed ==
    [req |-> <<>>, raised |-> FALSE, reply |-> <<>>, ramReq |-> <<>>,
     word |-> <<>>]

RespInit == clast = NoServed

\* The passive agent's monitor publishes a bus Transaction to the converter,
\* whose behaviour runs. The data of the i-th write is WordFrom(i, 0).
RespRequest ==
    /\ \E addr \in Addrs, be \in BeInputs, op \in Ops, tag \in Tags :
        /\ op = OP_WRITE => Len(busWrites) < MaxBusWrites
        /\ LET d == IF op = OP_WRITE THEN WordFrom(Len(busWrites) + 1, 0) ELSE tag
               trans == Transaction(addr, d, BeValue(be), op)
               c == BusRamConvert(ram, trans)
           IN /\ ram' = c.ram
              /\ replyQ' = c.reply
              /\ busWrites' = IF op = OP_WRITE
                              THEN Append(busWrites,
                                          [addr |-> addr, data |-> d, be |-> be])
                              ELSE busWrites
              /\ clast' = [req |-> <<trans>>, raised |-> c.raised,
                           reply |-> c.reply, ramReq |-> c.ramReq, word |-> <<>>]
    /\ UNCHANGED restOfResp

\* A test calls RamBlock.write(addr, data, be), be omitted or given.
RamWriteCall ==
    /\ Len(busWrites) < MaxBusWrites
    /\ \E addr \in Addrs, be \in BeInputs :
        LET d == WordFrom(Len(busWrites) + 1, 0) IN
        /\ ram' = RamWrite(ram, addr, d, BeValue(be))
        /\ busWrites' = Append(busWrites, [addr |-> addr, data |-> d, be |-> be])
    /\ clast' = NoServed
    /\ UNCHANGED <<replyQ, restOfResp>>

\* A test calls RamBlock.read(addr).
RamReadCall ==
    /\ \E addr \in Addrs :
        clast' = [NoServed EXCEPT !.req = <<Transaction(addr, 0, 0, OP_READ)>>,
                                  !.word = <<RamRead(ram, addr)>>]
    /\ UNCHANGED <<ramVars, restOfResp>>

\* ------------------------------------------------------ the discrete agent
\* RegisterDriver._drive, line 131, on a DiscreteDriver:
\* RegisterInterface._synchronize is called by its class, so the override of
\* DiscreteInterface does not apply: the activity yields ReadOnly and
\* RisingEdge(self.clk), which raises AttributeError on an interface that has
\* no signal named clk.
DiscAfterWake(d, hasClk) ==
    IF hasClk THEN [d EXCEPT !.pc = "clk_sync"] ELSE [d EXCEPT !.pc = "raised"]

\* yield self._event.wait(); self._event.clear(); then line 131.
DiscEventWait(d, hasClk) ==
    IF d.event
    THEN DiscAfterWake([d EXCEPT !.event = FALSE], hasClk)
    ELSE [d EXCEPT !.pc = "evt_wait"]

DiscInit == dclk = FALSE

\* The drive activity of a DiscreteDriver goes on from a NullTrigger: it
\* writes the oldest queued item to the interface, or waits for the event.
DiscDrvStep ==
    /\ drv.pc = "run" /\ mon.sync # "woken"
    /\ IF DriverReady(drv)
       THEN /\ drv' = DriverRead(drv)
            /\ data' = Head(drv.queue)
            /\ taken' = Append(taken, Head(drv.queue))
            /\ ifWrites' = Append(ifWrites, Head(drv.queue))
            /\ mon' = IF mon.sync = "edge" /\ data' # data
                      THEN [mon EXCEPT !.sync = "woken"] ELSE mon
            /\ hsLog' = IF mon.pc = "run" /\ data' # data
                        THEN [hsLog EXCEPT !.n = @ + 1] ELSE hsLog
       ELSE /\ drv' = DiscEventWait(drv, dclk)
            /\ UNCHANGED <<data, taken, ifWrites, mon, hsLog>>
    /\ UNCHANGED <<cfgVars, rst, vld, rdy, allowGen, wrlog, xfers, drvRelease,
                   published, lastSync, cycle, dclk, restOfDisc>>

\* Another activity calls write(item); a drive activity suspended in
\* self._event.wait() resumes, clears the event and goes on to line 131.
DiscCallWrite ==
    /\ Len(wrlog) < MaxWrites
    /\ \E item \in DataVals :
        /\ wrlog' = Append(wrlog, item)
        /\ LET w == DriverWrite(drv, item) IN
           drv' = IF w.pc = "evt_wait" THEN DiscEventWait(w, dclk) ELSE w
    /\ UNCHANGED <<cfgVars, sigVars, monVars, allowGen, taken, ifWrites, xfers,
                   drvRelease, dclk, restOfDisc>>

\* A rising clock edge resumes a drive activity suspended on it.
DiscTick ==
    /\ drv.pc = "clk_sync"
    /\ drv' = [drv EXCEPT !.pc = "run"]
    /\ UNCHANGED <<cfgVars, sigVars, monVars, allowGen, wrlog, taken, ifWrites,
                   xfers, drvRelease, dclk, restOfDisc>>

\* DiscreteMonitor._wait_reset: the monitor reads the initial value, then
\* waits in DiscreteInterface._synchronize for an Edge of any signal.
DiscMonStart ==
    /\ mon.pc = "rst_sync"
    /\ published' = MonitorRead(published)
    /\ hsLog' = [hsLog EXCEPT !.n = @ + 1]
    /\ mon' = [pc |-> "run", sync |-> "edge"]
    /\ UNCHANGED <<cfgVars, sigVars, drvVars, lastSync, cycle, dclk, restOfDisc>>

\* The monitor resumed by an Edge reads the interface and waits again.
DiscMonRead ==
    /\ mon.sync = "woken"
    /\ published' = MonitorRead(published)
    /\ mon' = [mon EXCEPT !.sync = "edge"]
    /\ UNCHANGED <<cfgVars, sigVars, drvVars, hsLog, lastSync, cycle, dclk,
                   restOfDisc>>

\* The design changes the data signal.
DiscEnvData ==
    /\ cycle < MaxCycles /\ mon.sync # "woken"
    /\ cycle' = cycle + 1
    /\ \E d \in (0..MaxData) \ {data} : data' = d
    /\ mon' = IF mon.sync = "edge" THEN [mon EXCEPT !.sync = "woken"] ELSE mon
    /\ hsLog' = IF mon.pc = "run" THEN [hsLog EXCEPT !.n = @ + 1] ELSE hsLog
    /\ UNCHANGED <<cfgVars, rst, vld, rdy, drvVars, published, lastSync, dclk,
                   restOfDisc>>

\* --------------------------------------------------------- specifications
CfgInit ==
    /\ kind \in Kinds
    /\ rstMode \in {"0", "1"}

\* The monitor on an interface whose signals the design under test drives.
InitMon ==
    /\ CfgInit
    /\ rst \in RstVals
    /\ vld \in {0, 1}
    /\ rdy \in {0, 1}
    /\ data = 0
    /\ MonInit
    /\ DrvInit /\ allowGen = "always"
    /\ QueueInit
    /\ BusInit /\ RamInit
    /\ PortInit /\ GraphInit /\ gconn = NoGraph /\ OutInit /\ FlushInit /\ IfInit /\ NsInit /\ RdInit /\ RespInit /\ DiscInit

NextMon == MonTick \/ MonEnvVld \/ MonEnvRdy \/ MonEnvData \/ MonEnvRst

SpecMon == InitMon /\ [][NextMon]_vars

\* The driver after construction: _write_default has put the default word on
\* the data signal and lowered vld, and _wait_reset is in its first alignment.
InitDrv ==
    /\ CfgInit
    /\ rst \in RstVals
    /\ vld = 0
    /\ rdy \in {0, 1}
    /\ data = 0
    /\ MonInit
    /\ DrvInit
    /\ QueueInit
    /\ BusInit /\ RamInit
    /\ PortInit /\ GraphInit /\ gconn = NoGraph /\ OutInit /\ FlushInit /\ IfInit /\ NsInit /\ RdInit /\ RespInit /\ DiscInit

NextDrv == DrvTick \/ DrvCallWrite \/ DrvEnvRdy \/ DrvEnvRst

SpecDrv == InitDrv /\ [][NextDrv]_vars
\* The queue operations of the two Driver classes, called by a test.
InitQueue ==
    /\ kind = "register" /\ rstMode = "1"
    /\ rst = "x" /\ vld = 0 /\ rdy = 0 /\ data = 0
    /\ MonInit
    /\ DrvInit /\ allowGen = "always"
    /\ QueueInit
    /\ BusInit /\ RamInit
    /\ PortInit /\ GraphInit /\ gconn = NoGraph /\ OutInit /\ FlushInit /\ IfInit /\ NsInit /\ RdInit /\ RespInit /\ DiscInit

NextQueue == CompWrite \/ CompRead \/ LegWrite \/ LegRead

SpecQueue == InitQueue /\ [][NextQueue]_vars

\* Two activities call flush on a component.Driver while the test writes to
\* it and its drive loop pops.
NextFlush ==
    \/ CompWrite
    \/ FlushPop
    \/ \E a \in Flushers : FlushCall(a)
    \/ \E a \in Flushers : FlushResume(a)

SpecFlush == InitQueue /\ [][NextFlush]_vars

\* The part of the state the bus specifications leave alone.
IdleRest ==
    /\ kind = "handshake" /\ rstMode = "1"
    /\ rst = "0" /\ vld = 0 /\ rdy = 0 /\ data = 0
    /\ MonInit
    /\ DrvInit /\ allowGen = "always"
    /\ QueueInit

\* Two activities read through one BusAgent while its read monitor publishes
\* whatever the read interface carries. What is read does not depend on the
\* addresses, so the reads are of address 0.
InitBus ==
    /\ IdleRest /\ BusInit /\ RamInit
    /\ PortInit /\ GraphInit /\ gconn = NoGraph /\ OutInit /\ FlushInit /\ IfInit /\ NsInit /\ RdInit /\ RespInit /\ DiscInit

\* The activities that call read differ in nothing but their name: the one
\* that calls first is taken to be "ra".
FirstIsRa(r) == r = "ra" \/ ports # <<>>

NextBus ==
    \/ \E r \in Readers : FirstIsRa(r) /\ ReadCall(r, {0}, MaxBurst)
    \/ \E r \in Readers : ReadResume(r)
    \/ Publish(DataVals)
    \/ BusDrive

SpecBus == InitBus /\ [][NextBus]_vars

\* The same with one value for the data of every response, which no step of
\* a read looks at, and with the addresses given in a list: an int address
\* takes the steps of a list of one, and any other argument raises before
\* the first wait. An activity whose trigger fired is
\* resumed by the scheduler.
NextBusFair ==
    \/ \E r \in Readers :
            FirstIsRa(r) /\ ReadCall(r, {0}, MaxBurst) /\ rd'[r].type = "list"
    \/ \E r \in Readers : ReadResume(r)
    \/ Publish({0})
    \/ BusDrive

FairSpecBus ==
    InitBus /\ [][NextBusFair]_vars /\ \A r \in Readers : WF_vars(ReadResume(r))

\* A test writes through a BusAgent and reads once through it; a passive
\* responder serves the requests in order: a passive BusAgent's monitor, a
\* BusRamConvertBlock and a RamBlock.
InitRam ==
    /\ IdleRest /\ BusInit /\ RamInit
    /\ PortInit /\ GraphInit /\ gconn = NoGraph /\ OutInit /\ FlushInit /\ IfInit /\ NsInit /\ RdInit /\ RespInit /\ DiscInit

NextRam ==
    \/ BusWriteCall
    \/ (ports = <<>> /\ ReadCall("ra", Addrs, MaxRamBurst))
    \/ ReadResume("ra")
    \/ Serve
    \/ PublishReply

SpecRam == InitRam /\ [][NextRam]_vars

\* The part of the state the port specifications leave alone.
IdleBus == IdleRest /\ BusInit /\ RamInit

\* A test calls the in-ports of block.py and of verify/__init__.py, and a
\* BusRamConvertBlock built on the ports of block.py serves requests.
InitPort == IdleBus /\ PortInit /\ GraphInit /\ gconn = NoGraph /\ OutInit /\ FlushInit /\ IfInit /\ NsInit /\ RdInit /\ RespInit /\ DiscInit

NextPort ==
    \/ PortSetup
    \/ PortWrite
    \/ PortPutResume
    \/ PortRead
    \/ LegacyPortWrite
    \/ LegacyPortRead
    \/ ConvFeed
    \/ ConvRun

SpecPort == InitPort /\ [][NextPort]_vars

\* main of block.py settles an acyclic graph of forwarding blocks whose
\* in-ports are set up.
InitGraph == IdleBus /\ PortInit /\ GraphInit /\ gconn \in Graphs /\ OutInit /\ FlushInit /\ IfInit /\ NsInit /\ RdInit /\ RespInit /\ DiscInit

NextGraph == GraphFeed \/ GraphStart \/ GraphRun \/ GraphPassEnd

SpecGraph == InitGraph /\ [][NextGraph]_vars

\* A test connects in-ports to the out-ports of block.py and of
\* verify/__init__.py, disconnects them and writes.
InitOut ==
    /\ IdleBus /\ PortInit /\ GraphInit /\ gconn = NoGraph /\ FlushInit /\ IfInit /\ NsInit /\ RdInit /\ RespInit /\ DiscInit
    /\ \E c \in OutClasses : OutInitWith(c)

NextOut ==
    \/ OutConnect
    \/ OutDisconnect
    \/ OutWrite
    \/ OutResume
    \/ OutRead
    \/ LegOutConnect
    \/ LegOutDisconnect
    \/ LegOutWrite

SpecOut == InitOut /\ [][NextOut]_vars

\* A test constructs an Interface of one of the three classes with some
\* keyword arguments, and calls transaction, write and read on it.
InitIf ==
    /\ IdleBus /\ PortInit /\ GraphInit /\ gconn = NoGraph /\ OutInit /\ RdInit /\ RespInit /\ DiscInit
    /\ FlushInit /\ NsInit
    /\ \E c \in IfClasses, kw \in [IfNames -> {"absent", "signal", "other"}] :
            IfInitWith(c, kw)

NextIf == IfConstruct \/ IfTransaction \/ IfWrite \/ IfRead \/ IfWriteDefault

SpecIf == InitIf /\ [][NextIf]_vars

\* A test compares two Namespaces.
InitNs ==
    /\ IdleBus /\ PortInit /\ GraphInit /\ gconn = NoGraph /\ OutInit /\ RdInit /\ RespInit /\ DiscInit
    /\ FlushInit /\ IfInit
    /\ \E x \in Namespaces, y \in Namespaces : NsInitWith(x, y)

NextNs == NsCallAB \/ NsCallBA \/ NsCallEq

SpecNs == InitNs /\ [][NextNs]_vars

\* A HandshakeReadDriver after construction: _write_default has lowered rdy
\* and _wait_reset is in its first alignment; the sending side drives vld.
InitRd ==
    /\ kind = "handshake" /\ rstMode \in {"0", "1"}
    /\ rst \in RstVals
    /\ vld \in {0, 1}
    /\ rdy = 0
    /\ data = 0
    /\ MonInit
    /\ DrvInit
    /\ QueueInit
    /\ BusInit /\ RamInit
    /\ PortInit /\ GraphInit /\ gconn = NoGraph /\ OutInit /\ RespInit /\ DiscInit
    /\ FlushInit /\ IfInit /\ NsInit /\ RdInit

NextRd ==
    \/ RdTick \/ RdEnvVld \/ RdEnvRst
    \/ RdCallWrite \/ RdCallInport \/ RdCallFlush

SpecRd == InitRd /\ [][NextRd]_vars

\* The passive responder serves bus Transactions of any op, and a test calls
\* the RamBlock's write and read.
InitResp ==
    /\ IdleRest /\ BusInit /\ RamInit
    /\ PortInit /\ GraphInit /\ gconn = NoGraph /\ OutInit /\ DiscInit
    /\ FlushInit /\ IfInit /\ NsInit /\ RdInit /\ RespInit

NextResp == RespRequest \/ RamWriteCall \/ RamReadCall

SpecResp == InitResp /\ [][NextResp]_vars

\* A DiscreteDriver and a DiscreteMonitor on one interface, which has a
\* signal named clk or has none: _write_default and _wait_reset of the driver
\* have yielded their NullTriggers, the monitor has not run yet.
InitDisc ==
    /\ kind = "discrete" /\ rstMode = "1"
    /\ rst \in RstVals
    /\ vld = 0 /\ rdy = 0 /\ data = 0
    /\ MonInit
    /\ drv = [pc |-> "run", sync |-> "none", queue |-> <<>>,
              event |-> FALSE, flushevt |-> FALSE]
    /\ allowGen = "always" /\ wrlog = <<>> /\ taken = <<>> /\ ifWrites = <<>>
    /\ xfers = <<>> /\ drvRelease = <<>>
    /\ QueueInit
    /\ BusInit /\ RamInit
    /\ PortInit /\ GraphInit /\ gconn = NoGraph /\ OutInit
    /\ FlushInit /\ IfInit /\ NsInit /\ RdInit /\ RespInit
    /\ dclk \in BOOLEAN

NextDisc ==
    \/ DiscDrvStep \/ DiscCallWrite \/ DiscTick
    \/ DiscMonStart \/ DiscMonRead \/ DiscEnvData

SpecDisc == InitDisc /\ [][NextDisc]_vars

\* ------------------------------------------------------------------ claims
IsPrefix(s, t) == Len(s) <= Len(t) /\ s = SubSeq(t, 1, Len(s))

\* C1: HandshakeInterface._synchronize returns only at a rising clock edge at
\* which vld and rdy are both read as asserted; with either low it goes on
\* waiting.
C1_SynchronizeReturnsOnHandshake ==
    kind = "handshake" =>
        \A i \in 1..Len(lastSync) :
            lastSync[i].atClk /\ lastSync[i].vld = 1 /\ lastSync[i].rdy = 1

\* C1 witness: a handshake monitor's _synchronize has returned twice, with
\* clock edges in between at which it did not.
C1_Witness ==
    kind = "handshake" /\ lastSync # <<>> /\ published.n = 2 /\ cycle = MaxCycles

\* C2: on a HandshakeWriteDriver every clock edge with vld and rdy asserted
\* transfers the item last taken from the queue, each item taken is
\* transferred once, and vld is low once the last item went and nothing is
\* queued.
C2_OneTransferPerItem ==
    kind = "handshake" =>
        /\ IsPrefix(xfers, taken)
        /\ Len(taken) <= Len(xfers) + 1
        /\ (vld = 1 => Len(taken) = Len(xfers) + 1)
        /\ (drv.pc \in {"idle_sync", "evt_wait"} =>
                Len(xfers) = Len(taken) /\ vld = 0)

\* C2 witness: a write driver with a coin-toss generator went idle after two
\* transfers.
C2_Witness ==
    /\ kind = "handshake" /\ allowGen = "coin"
    /\ drv.pc = "evt_wait" /\ Len(xfers) >= 2 /\ vld = 0

\* C3: what was written to the interface from the queue is what was taken
\* from it, nothing queued is lost or repeated, and a drive activity that
\* waits for the event has written every entry queued so far.
C3_DriverRoundTrip ==
    /\ ifWrites = taken
    /\ taken \o drv.queue = wrlog
    /\ (drv.pc = "evt_wait" => drv.queue = <<>> /\ ifWrites = wrlog)

\* C3 witness: the drive activity is quiescent with several entries written.
C3_Witness ==
    drv.pc = "evt_wait" /\ Len(wrlog) >= 2 /\ ifWrites = wrlog

\* The drive loop of component.Driver writes the queued entries in the order
\* of the write calls.
DriveLoopFifo == IsPrefix(ifWrites, wrlog)

\* C4: a Driver consumes its queue in strict FIFO order: a _read of a queue
\* that holds data takes the oldest entry, for both Driver classes.
C4_StrictFifo ==
    \A r \in {cres, lres} :
        (r.called /\ r.oldest # <<>>) => (~r.raised /\ r.ret = r.oldest)

C6_ResetWaitEndsInactive ==
    \A i \in 1..Len(drvRelease) :
        drvRelease[i] \notin {"x", "z"} /\ drvRelease[i] # rstMode

NoLostArrival ==
    \A r \in Readers :
        rd[r].pc = "wait" =>
            /\ rd[r].got = rd[r].seen
            /\ ports[rd[r].port] = <<>>
            /\ ~rdEvent

ByteOf(d, j) == (d \div 2^(BYTE_WIDTH * j)) % 2^BYTE_WIDTH
Enables(w, j) == w.be = <<>> \/ (w.be[1] \div 2^j) % 2 = 1

\* The write calls that put a byte at byte address a.
WritesTo(log, a) ==
    {i \in 1..Len(log) : \E j \in 0..(bpd - 1) : log[i].addr + j = a /\ Enables(log[i], j)}

\* The byte the write calls leave at byte address a: that of the latest call
\* that wrote there, the default byte when none did.
ByteAfter(log, a) ==
    IF WritesTo(log, a) = {}
    THEN defaultByte
    ELSE LET i == CHOOSE i \in WritesTo(log, a) : \A k \in WritesTo(log, a) : k <= i
         IN ByteOf(log[i].data, a - log[i].addr)

\* The word the write calls leave at address a, from its byte k on.
RECURSIVE WordAfter(_, _, _)
WordAfter(log, a, k) ==
    IF k = bpd THEN 0
    ELSE ByteAfter(log, a + k) * 2^(BYTE_WIDTH * k) + WordAfter(log, a, k + 1)

\* The write calls to address a, and the data of the last of them.
CallsAt(log, a) == {i \in 1..Len(log) : log[i].addr = a}
LastWrittenAt(log, a) ==
    log[CHOOSE i \in CallsAt(log, a) : \A k \in CallsAt(log, a) : k <= i].data

\* The write calls that came before the read of activity "ra".
WritesBefore == SubSeq(busWrites, 1, wrBefore["ra"])

C11_ReturnShape ==
    \A r \in Readers :
        rd[r].pc = "done" =>
            /\ Len(rd[r].ret[1].items) = Len(rd[r].addrs)
            /\ (rd[r].type = "int" => rd[r].ret[1].single)
            /\ (rd[r].type = "list" => ~rd[r].ret[1].single)

\* The requests of a read of the addresses l.
RequestsOf(l) ==
    [i \in 1..Len(l) |-> Transaction(l[i], baseAddr, 2^beWidth - 1, OP_READ)]

\* C12: the step in which BusAgent.read is called puts on the write driver's
\* queue, for each address in the given order, one request with op READ, that
\* address and the agent's base address as data, before the read first waits;
\* no later step of the read puts anything on the queue.
C12_RequestsEnqueuedFirst ==
    [][IF Len(ports') > Len(ports)
       THEN \E r \in Readers :
               /\ rd'[r].port = Len(ports')
               /\ busWr'.queue = busWr.queue \o RequestsOf(rd'[r].addrs)
       ELSE busWrites' = busWrites => Len(busWr'.queue) <= Len(busWr.queue)]_vars

\* C12 witness: a read of three addresses, not all the same, waits for its
\* first response with its three requests at the end of the queue.
C12_Witness ==
    /\ rd["ra"].pc = "wait" /\ rd["ra"].got = <<>>
    /\ Len(rd["ra"].addrs) = 3 /\ rd["ra"].addrs[1] # rd["ra"].addrs[3]
    /\ Len(busWr.queue) > 3
    /\ SubSeq(busWr.queue, Len(busWr.queue) - 2, Len(busWr.queue))
            = RequestsOf(rd["ra"].addrs)

\* The entries of the list l that are in the list m, in l's order.
Kept(l, m) == SelectSeq(l, LAMBDA x : \E i \in DOMAIN m : m[i] = x)

C14_WriteEnqueuesOne ==
    [][busWrites' # busWrites =>
        LET w == busWrites'[Len(busWrites')] IN
        /\ busWr'.queue =
                Append(busWr.queue,
                       [addr |-> w.addr, data |-> w.data, op |-> 0,
                        be |-> IF w.be = <<>> THEN 2^beWidth - 1 ELSE w.be[1]])
        /\ busWr'.event]_vars

\* C14 witness: the queue holds a write made without be and one made with.
C14_Witness ==
    /\ Len(busWrites) = 2 /\ Len(busWr.queue) = 2
    /\ busWrites[1].be = <<>> /\ busWrites[2].be # <<>>
    /\ busWr.queue[1].be = 2^beWidth - 1 /\ busWr.queue[2].be = busWrites[2].be[1]

\* C15: for every sequence of writes to an InPort, successive reads return
\* the written values in the order they were written: the values read are a
\* prefix of the values written, and a read of a port that holds data returns
\* the oldest value it holds; this for the InPort of block.py and for the
\* InPort of verify/__init__.py.
C15_ReadsInWriteOrder ==
    /\ IsPrefix(alog.reads, alog.written)
    /\ IsPrefix(llog.reads, llog.written)
    /\ (ares.op = "read" /\ ares.oldest # <<>>) =>
            ~ares.raised /\ ares.ret = ares.oldest
    /\ (lpres.op = "read" /\ lpres.oldest # <<>>) =>
            ~lpres.raised /\ lpres.ret = lpres.oldest

\* C16: a read of an InPort that holds no data, fresh or drained, returns
\* None without raising and leaves the port empty; this for the InPort of
\* block.py and for the InPort of verify/__init__.py.
C16_EmptyReadGivesNone ==
    /\ (ares.op = "read" /\ ares.oldest = <<>>) =>
            ~ares.raised /\ ares.ret = <<>> /\ ares.left = <<>>
    /\ (lpres.op = "read" /\ lpres.oldest = <<>>) =>
            ~lpres.raised /\ lpres.ret = <<>> /\ lpres.left = <<>>

\* C17: InPort.write never blocks and always succeeds: no write raises and
\* no writer is ever suspended in a write, whether or not the earlier values
\* were read.
C17_WriteNeverBlocks ==
    /\ awriter.pc = "idle"
    /\ ares.op = "write" => ~ares.raised /\ ~ares.blocked
    /\ lpres.op = "write" => ~lpres.raised /\ ~lpres.blocked

\* C18: InPort.write does not run the behaviour of the owning block: the
\* behaviour has not run when the write returns; this for the InPort of
\* block.py and for the InPort of verify/__init__.py.
C18_WriteRunsNoBehavior ==
    /\ ares.op = "write" => ~ares.inline
    /\ lpres.op = "write" => ~lpres.inline /\ lport.runs = 0

\* A task of the gather is suspended in a put and no task is ready to run:
\* nothing will wake it, and the gather never completes.
GraphStuck ==
    /\ gpc = "pass"
    /\ grdy = <<>>
    /\ \E b \in Blocks : gtask[b].pc = "blocked"

\* C19: the behaviours run in the order in which they were scheduled, those
\* scheduled by behaviours of the same drain included: the order in which
\* the behaviours ran is a prefix of the order in which the in-ports were
\* given data.
C19_BehavioursRunInScheduleOrder == IsPrefix(ran, sched)

\* C20: a settle pass over a finite acyclic port graph ends with no writer
\* left blocked, and when it has ended every block whose in-port was given
\* data has run its behaviour since: no in-port holds data and the
\* behaviours ran as often as in-ports were given data.
C20_SettleEnds ==
    /\ ~GraphStuck
    /\ gpc = "ended" =>
        /\ \A b \in Blocks : gin[b] = 0
        /\ Len(ran) = Len(sched)

\* C21: when the converter's behaviour has forwarded a READ to the RAM with
\* OutPort.write(..., execute_behavior=True), the write has returned with the
\* RAM's reply in ramInport: the behaviour did not raise, the assertion on
\* ramInport.ready() found it ready, and the reply went to busOutport.
C21_ReadReplyIsThere ==
    conv.op = <<OP_READ>> =>
        /\ ~conv.raised
        /\ conv.ramReady = <<TRUE>>
        /\ conv.reply # <<>>

\* How often in-port p occurs in the list l.
Count(l, p) == Cardinality({i \in DOMAIN l : l[i] = p})

\* A write of the OutPort of verify/__init__.py has just returned: each
\* in-port of the list got the value once for each of its connections, last
\* in its deque.
LegacyDelivered ==
    /\ llast.sent = lin
    /\ \A p \in OutIns :
        /\ Count(llast.sent, p) = ocnt[p]
        /\ Len(ldq[p].data) >= ocnt[p]
        /\ \A i \in 1..ocnt[p] : ldq[p].data[Len(ldq[p].data) + 1 - i] = onwr

\* A write of the OutPort of block.py during which no connect or disconnect
\* was called: what it has written so far went to the first in-ports of the
\* list in list order, and when it has returned each in-port of the list got
\* the value once for each of its connections; an in-port it wrote to holds
\* the value until it is read.
AsyncDelivered ==
    /\ IsPrefix(owr.sent, oin)
    /\ owr.pc = "done" =>
        /\ owr.sent = oin
        /\ \A p \in OutIns :
            /\ Count(owr.sent, p) = ocnt[p]
            /\ ocnt[p] > 0 => oq[p] \in {<<>>, <<owr.data>>}

LessFirst(l, p) ==
    LET i == CHOOSE i \in DOMAIN l : l[i] = p /\ \A j \in 1..(i - 1) : l[j] # p
    IN SubSeq(l, 1, i - 1) \o SubSeq(l, i + 1, Len(l))

\* C23: the first disconnect of a connected in-port returns True and takes
\* it out of the list; a disconnect of an in-port that is not in the list
\* returns False and leaves the list as it was; this for the OutPort of
\* block.py and for the OutPort of verify/__init__.py.
C23_DisconnectFoundOnce ==
    /\ [](olast.op = "disconnect" =>
            olast.ret = IF olast.found THEN "True" ELSE "False")
    /\ [](llast.op = "disconnect" =>
            llast.ret = IF llast.found THEN "True" ELSE "False")
    /\ [][/\ (olast'.op = "disconnect" /\ (olast' # olast \/ oin' # oin)) =>
                /\ olast'.found = (Count(oin, olast'.port) > 0)
                /\ oin' = IF olast'.found THEN LessFirst(oin, olast'.port) ELSE oin
          /\ (llast'.op = "disconnect" /\ (llast' # llast \/ lin' # lin)) =>
                /\ llast'.found = (Count(lin, llast'.port) > 0)
                /\ lin' = IF llast'.found THEN LessFirst(lin, llast'.port) ELSE lin
         ]_vars

\* C24: a pop of the drive loop that takes the queue from non-empty to empty
\* releases every activity suspended in flush, once: each goes on and
\* returns; a pop that leaves items in the queue, and any other step,
\* releases none.
C24_FlushReleasedOnEmpty ==
    [][IF Len(cq.queue) = 1 /\ cq'.queue = <<>>
       THEN \A a \in Flushers : fl[a].pc = "wait" => fl'[a].pc = "woken"
       ELSE \A a \in Flushers :
                /\ fl[a].pc = "wait" /\ Len(cq'.queue) >= Len(cq.queue) =>
                        fl'[a].pc = "wait"
                /\ fl[a].pc = "wait" /\ Len(cq'.queue) < Len(cq.queue) =>
                        fl'[a].pc = "wait" /\ fl'[a].pops >= fl[a].pops
                /\ fl'[a].pc = "woken" => fl[a].pc = "woken"]_vars

\* Both activities have been released by the pop that emptied the queue, one
\* of them after a pop that left items in it.
C24_Witness ==
    /\ cq.queue = <<>> /\ cq.flushevt
    /\ \A a \in Flushers : fl[a].pc = "woken"
    /\ \E a \in Flushers : fl[a].pops >= 1

\* C25: a HandshakeWriteDriver whose congestion generator always yields
\* false never asserts vld, whatever is queued and whatever rdy does.
C25_NeverAllowKeepsVldLow ==
    (kind = "handshake" /\ allowGen = "never") => vld = 0

\* C25 witness: the driver has written an item's data and stalls in its allow
\* loop, with more queued and rdy asserted.
C25_Witness ==
    /\ kind = "handshake" /\ allowGen = "never"
    /\ drv.pc = "allow_sync" /\ Len(ifWrites) = 1 /\ Len(drv.queue) >= 2
    /\ rdy = 1 /\ vld = 0

\* The reset wait of the drive activity has returned.
DrvReleased == drv.pc \notin {"rst_sync", "rst_edge"}

\* C26: a HandshakeWriteDriver whose congestion generator always yields true
\* never stalls in its allow loop; the step that writes an item's data also
\* asserts vld; and once the reset wait is over, queued data finds vld
\* asserted, or is taken and vld asserted at the next rising clock edge.
C26_AlwaysAllowAssertsAtOnce ==
    /\ []((kind = "handshake" /\ allowGen = "always") =>
            /\ drv.pc # "allow_sync"
            /\ (DrvReleased /\ drv.queue # <<>>) =>
                    (vld = 1 \/ drv.pc = "idle_sync"))
    /\ [][(kind = "handshake" /\ allowGen = "always") =>
            /\ ifWrites' # ifWrites =>
                    vld' = 1 /\ data' = ifWrites'[Len(ifWrites')]
            /\ (drv.pc = "idle_sync" /\ drv.queue # <<>>
                    /\ drv'.pc # "idle_sync") =>
                    vld' = 1 /\ data' = Head(drv.queue)]_vars

\* C26 witness: two items went over the interface and the third is on it with
\* vld asserted.
C26_Witness ==
    /\ kind = "handshake" /\ allowGen = "always"
    /\ Len(xfers) >= 2 /\ Len(taken) = 3 /\ vld = 1 /\ drv.pc = "sync"

\* C27: the construction of an Interface succeeds exactly when every value
\* given is a Signal handle and every control name of the class is among the
\* names given.
C27_ConstructionChecksControls ==
    iface.made =>
        (~iface.raised <=>
            /\ \A n \in Supplied(ikw) : ikw[n] = "signal"
            /\ Cntrl(icls) \subseteq Supplied(ikw))

\* C28: transaction(**overrides) returns a Transaction whose attributes are
\* the data-signal names of the interface, each with the override given for
\* it, or None.
C28_TransactionIsDataSignals ==
    ilast.op = "transaction" =>
        /\ DOMAIN ilast.ret = iface.members \ Cntrl(icls)
        /\ \A n \in DOMAIN ilast.ret :
                ilast.ret[n] = IF n \in ilast.asked THEN <<ilast.val>> ELSE <<>>

\* C29: a write and a driver's default write leave every control signal as
\* it was, and a read returns no control signal.
C29_ControlsSkipped ==
    /\ ilast.op \in {"write", "default"} =>
            \A n \in Cntrl(icls) : isig[n] = ilast.before[n]
    /\ ilast.op = "read" => DOMAIN ilast.ret \cap Cntrl(icls) = {}

\* C30: for Namespaces A and B, A.isequalto(B) holds iff B.isequalto(A)
\* holds, and iff A and B have the same attribute names with equal values.
C30_IsEqualToSymmetric ==
    (nsRes.ab # <<>> /\ nsRes.ba # <<>>) =>
        /\ nsRes.ab = nsRes.ba
        /\ nsRes.ab = <<"True">> <=> nsA = nsB

\* C31: write, inport and flush of a HandshakeReadDriver raise, nothing is
\* ever queued and no event set, and the step of such a call leaves the
\* drive activity and the signals as they were.
C31_ReadDriverRejectsCalls ==
    /\ [](drv.queue = <<>> /\ ~drv.event /\ ~drv.flushevt)
    /\ [](rcall.op # "none" => rcall.raised)
    /\ [][rcall' # rcall => drv' = drv /\ sigVars' = sigVars]_vars

\* C31 witness: a call was rejected while the drive activity, past its reset
\* wait, holds rdy asserted and waits for vld.
C31_Witness ==
    /\ rcall.op = "flush" /\ rcall.raised
    /\ drv.pc = "sync" /\ drv.sync = "vld_edge" /\ rdy = 1 /\ vld = 0

\* C32: a bus Transaction whose op is neither OP_WRITE nor OP_READ makes the
\* converter raise; it sends nothing to the RAM, the RAM keeps its contents
\* and no reply is emitted.
C32_UnknownOpRaises ==
    /\ [](\A i \in 1..Len(clast.req) :
            (clast.word = <<>> /\ clast.req[i].op \notin {OP_WRITE, OP_READ}) =>
                clast.raised /\ clast.ramReq = <<>> /\ clast.reply = <<>>
                    /\ replyQ = <<>>)
    /\ [][\A i \in 1..Len(clast'.req) :
            (clast' # clast /\ clast'.req[i].op \notin {OP_WRITE, OP_READ}) =>
                ram' = ram]_vars

\* C32 witness: a request with an unknown op was refused by a responder
\* whose RAM holds data.
C32_Witness ==
    /\ clast.req # <<>> /\ clast.req[1].op = 2 /\ clast.raised
    /\ Len(busWrites) = 2 /\ DOMAIN ram # {}

C36_RamReadsLastEnabledBytes ==
    /\ [](clast.word # <<>> =>
            clast.word[1] = WordAfter(busWrites, clast.req[1].addr, 0))
    /\ [](\A a \in 0..(MaxAddr + bpd) : RamGet(ram, a) = ByteAfter(busWrites, a))
    /\ [][Len(busWrites') > Len(busWrites) =>
            LET w == busWrites'[Len(busWrites')] IN
            \A a \in 0..(MaxAddr + bpd) :
                (\A j \in 0..(bpd - 1) : ~(w.addr + j = a /\ Enables(w, j))) =>
                    RamGet(ram', a) = RamGet(ram, a)]_vars

\* C36 witness: a read returned a word that mixes bytes of two writes.
C36_Witness ==
    /\ clast.word # <<>> /\ Len(busWrites) = 2
    /\ busWrites[2].be # <<>> /\ busWrites[1].addr # busWrites[2].addr
    /\ busWrites[1].addr = 0 /\ busWrites[2].addr = 1 /\ clast.req[1].addr = 0
    /\ ByteOf(clast.word[1], 0) = ByteOf(busWrites[1].data, 0)
    /\ ByteOf(clast.word[1], 1) = ByteOf(busWrites[2].data, 0)
    /\ ByteOf(clast.word[1], 2) = ByteOf(busWrites[1].data, 2)

\* C34: the drive activity of a DiscreteDriver is never suspended on a clock
\* edge or on reset, and a DiscreteMonitor has published the initial value
\* and one observation for each change of the interface since.
C34_DiscreteHasNoClockGate ==
    kind = "discrete" =>
        /\ drv.pc \notin {"clk_sync", "rst_sync", "rst_edge"}
        /\ (mon.pc = "run" /\ mon.sync = "edge") =>
                published.n = hsLog.n /\ published.last = <<InterfaceRead>>

\* C35: flush returns only with the queue empty: an activity released from
\* its wait finds the queue empty when flush returns, whatever was written
\* while it was being resumed, and a flush called with the queue empty does
\* not wait.
C35_FlushReturnsOnEmpty ==
    [][\A a \in Flushers :
        /\ (fl[a].pc = "woken" /\ fl'[a].pc = "idle") => cq'.queue = <<>>
        /\ (fl[a].pc = "idle" /\ cq.queue = <<>>) => fl'[a].pc = "idle"]_vars

\* C37: while a HandshakeWriteDriver has vld asserted, a step that is not a
\* clock edge with vld and rdy both asserted (the edge that appends to xfers)
\* changes neither the data signal nor vld, whatever rdy does and whatever is
\* written to the queue.
C37_HeldUntilAccepted ==
    [][(kind = "handshake" /\ vld = 1 /\ xfers' = xfers)
        => (vld' = 1 /\ data' = data)]_vars

\* The driver holds an item with rdy low, after a clock edge has found rdy
\* low, while a later write waits in the queue.
C37_Witness ==
    /\ kind = "handshake" /\ vld = 1 /\ rdy = 0
    /\ drv.pc = "sync" /\ drv.sync = "rdy_edge"
    /\ Len(drv.queue) >= 1
    /\ Len(taken) >= 1 /\ data = taken[Len(taken)]
    /\ Head(drv.queue) # data

\* C38: two reads of one agent that overlap share no reply: every read that
\* has returned holds as many replies as it issued addresses, and the two
\* together hold no more replies than the read monitor has published (a
\* reply reaches an in-port once, so more replies than publications means
\* that one publication was returned to both callers).
C38_NoSharedReply ==
    /\ \A r \in Readers :
            rd[r].pc = "done" => Len(rd[r].got) = Len(rd[r].addrs)
    /\ Len(rd["ra"].got) + Len(rd["rb"].got) <= npub

\* C39: a BusAgent.read whose addr is neither an int nor a list raises and
\* leaves the agent as it was: the step in which it raises changes neither
\* the write driver's queue nor the list of in-ports connected to the read
\* monitor's out-port.
C39_BadAddrLeavesAgent ==
    [][\A r \in Readers :
        (rd'[r] # rd[r] /\ rd'[r].pc = "raised")
            => (rd'[r].type = "other" /\ busWr' = busWr /\ inports' = inports)]_vars

====
